---- MODULE Spec2Model ----
(***************************************************************************)
(* A model of the multi-user token tracker: the user registry              *)
(* (src/src/storage/user_manager.py), the tracking engine                  *)
(* (src/src/tracker/token_tracker.py), the notifier's delivery             *)
(* (src/src/bot/telegram_notifier.py) and the command handlers that drive  *)
(* them (src/src/bot/telegram_handler.py).                                 *)
(*                                                                         *)
(* The program runs on one asyncio event loop.  A task runs without        *)
(* interruption from one suspension point to the next, so every action     *)
(* below is the code of one task between two suspension points.  The       *)
(* suspension points are the network calls: the price gateway, the holder  *)
(* gateway and bot.send_message.  The storage calls are awaited but never  *)
(* suspend: their bodies hold no await and their lock is never held across *)
(* a suspension, so they run inside the step that calls them.              *)
(*                                                                         *)
(* Prices are floats in the program and integers here.  change_percent is  *)
(* a quotient; every comparison with it is made on the cross-multiplied    *)
(* integers, which is exact.                                               *)
(***************************************************************************)
EXTENDS Integers, Sequences, FiniteSets, TLC

VARIABLES
    users,              \* UserManager.users: user id -> record
    users_order,        \* the insertion order of the keys of UserManager.users
    _running,           \* TokenTracker._running
    _price_cache,       \* TokenTracker._price_cache: token -> price
    _holder_cache,      \* TokenTracker._holder_cache: token -> count
    _user_price_cache,  \* TokenTracker._user_price_cache: user -> token -> price
    _message_queue,     \* TelegramNotifier._message_queue
    price_log,          \* CSVStorage: the last row of the token's price file
    engine,             \* the task running TokenTracker.start
    price,              \* the task running TokenTracker._track_prices
    holder,             \* the task running TokenTracker._track_holders
    cmd,                \* the command handler in flight
    ncmd,               \* the number of commands still to arrive
    nanswers,           \* the number of price gateway requests answered so far
    nholders,           \* the number of holder gateway requests answered so far
    ev,                 \* what the last step did, as seen from outside
    alerted_at,         \* user -> token -> the price of the standing alert
    limiter,            \* BaseAPI.last_request_time and the callers of one gateway
    notifier,           \* TelegramNotifier._running and its _process_messages task
    count_call,         \* a call of SolanaTracker.get_token_holders_count
    add_calls,          \* the calls of TokenTracker.add_token under way
    info_call           \* a call of TokenTracker.get_token_info_with_timestamp

vars == <<users, users_order, _running, _price_cache, _holder_cache,
          _user_price_cache, _message_queue, price_log, engine, price,
          holder, cmd, ncmd, nanswers, nholders, ev,
          alerted_at, limiter, notifier, count_call, add_calls, info_call>>

-----------------------------------------------------------------------------
(* The values the model draws from.                                        *)

UserIds == {"u1", "u2"}
TokenAddrs == {"t1", "t2"}
NoUser == "no_user"
NoToken == "no_token"

\* Python's None, for a price, a count or a missing dictionary key.
None == -1

\* What the price gateway can return; 0 is the price of a pair without
\* priceUsd.
PriceValues == {0, 80, 110, 125}
\* What the holder gateway can return; 0 is its answer when every strategy of
\* get_token_holders_count has failed.
HolderValues == {0, 1000, 1005, 1120}
\* With a small count, which makes a change of few holders a large percentage.
HolderValuesWide == HolderValues \cup {5}
\* The threshold values a user types.
ThresholdInputs == {15, 20}
\* float("nan"), which float() parses from the text "nan"; every comparison
\* with it is false.
NaN == -3
\* With the values outside (0, 100] and the one that is no number.
ThresholdInputsWide == ThresholdInputs \cup {0, 150, NaN}
Directions == {"both", "positive", "negative"}

\* The persisted state the program can start from.
InitEntryPrices == {100}
InitTracked == {<<>>, <<"t1">>, <<"t1", "t2">>}

\* The bounds of the exploration.
MaxCommands == 1
MaxStartupCommands == 2
MaxGatewayAnswers == 2
MaxHolderAnswers == 2

\* TokenTracker.stop has run: the flag is cleared and the session of the price
\* gateway is closed (the flag is also false before start, with no session).
SessionClosed == ~_running /\ engine.pc # "stopped"

\* The network answers only so many requests to the price gateway and to the
\* holder gateway within the exploration; a request beyond them stays pending.
\* After stop() the requests still open are answered whatever their number:
\* no new polling iteration begins, so they are finitely many.
CanAnswer == nanswers < MaxGatewayAnswers \/ SessionClosed
CanAnswerHolders == nholders < MaxHolderAnswers \/ SessionClosed

DefaultThreshold == 20
HolderCountStep == 10
HolderPercentStep == 10

NoRule == [value |-> None, direction |-> "none"]

Range(s) == {s[i] : i \in 1..Len(s)}
Abs(x) == IF x < 0 THEN 0 - x ELSE x

\* The orders in which a Python set of tokens can be iterated.
RECURSIVE Orderings(_)
Orderings(S) ==
    IF S = {} THEN {<<>>}
    ELSE UNION {{<<x>> \o s : s \in Orderings(S \ {x})} : x \in S}

-----------------------------------------------------------------------------
(* UserManager                                                              *)

\* registered_at is "now" for a record created in this run and "loaded" for
\* one read from chat_ids.json.
NewUser ==
    [active |-> TRUE,
     registered_at |-> "now",
     tracked_tokens |-> <<>>,
     global_threshold |-> DefaultThreshold,
     token_thresholds |-> [t \in TokenAddrs |-> NoRule],
     entry_prices |-> [t \in TokenAddrs |-> None]]

\* A faulty variant: registering again starts the record afresh.
register_userResets(us, u) ==
    [x \in DOMAIN us \cup {u} |-> IF x = u THEN NewUser ELSE us[x]]

register_user(us, u) ==
    IF u \notin DOMAIN us
    THEN us @@ (u :> NewUser)
    ELSE [us EXCEPT ![u].active = TRUE]

register_order(us, order, u) ==
    IF u \notin DOMAIN us THEN Append(order, u) ELSE order

\* A faulty variant: a deactivated user still counts as active.
is_user_activeKnown(us, u) == u \in DOMAIN us

is_user_active(us, u) == u \in DOMAIN us /\ us[u].active

get_active_users(us, order) == SelectSeq(order, LAMBDA u : us[u].active)

get_user_tokens(us, u) == IF u \in DOMAIN us THEN us[u].tracked_tokens ELSE <<>>

add_token_ok(us, u, t) ==
    u \in DOMAIN us /\ t \notin Range(us[u].tracked_tokens)

\* A faulty variant: without a price the token is not added.
add_token_to_userNeedsPrice(us, u, t, entry_price) ==
    IF ~add_token_ok(us, u, t) \/ entry_price = None THEN us
    ELSE [us EXCEPT
            ![u].tracked_tokens = Append(@, t),
            ![u].entry_prices[t] = entry_price]

\* A faulty variant: a token that is tracked already gets the new entry price.
add_token_to_userOverwrites(us, u, t, entry_price) ==
    IF u \notin DOMAIN us THEN us
    ELSE IF t \in Range(us[u].tracked_tokens)
         THEN [us EXCEPT
                 ![u].entry_prices[t] =
                     IF entry_price # None THEN entry_price ELSE @]
         ELSE [us EXCEPT
                 ![u].tracked_tokens = Append(@, t),
                 ![u].entry_prices[t] =
                     IF entry_price # None THEN entry_price ELSE @]

add_token_to_user(us, u, t, entry_price) ==
    IF ~add_token_ok(us, u, t) THEN us
    ELSE [us EXCEPT
            ![u].tracked_tokens = Append(@, t),
            ![u].entry_prices[t] = IF entry_price # None THEN entry_price ELSE @]

remove_token_ok(us, u, t) ==
    u \in DOMAIN us /\ t \in Range(us[u].tracked_tokens)

\* A faulty variant: a removal drops every per-token rule of the user.
remove_token_from_userDropsRules(us, u, t) ==
    IF ~remove_token_ok(us, u, t) THEN us
    ELSE [us EXCEPT
            ![u].tracked_tokens = SelectSeq(@, LAMBDA x : x # t),
            ![u].entry_prices[t] = None,
            ![u].token_thresholds = [x \in TokenAddrs |-> NoRule]]

remove_token_from_user(us, u, t) ==
    IF ~remove_token_ok(us, u, t) THEN us
    ELSE [us EXCEPT
            ![u].tracked_tokens = SelectSeq(@, LAMBDA x : x # t),
            ![u].entry_prices[t] = None,
            ![u].token_thresholds[t] = NoRule]

\* A faulty variant: the threshold is written into every record.
set_user_global_thresholdForAll(us, u, v) ==
    IF u \notin DOMAIN us THEN us
    ELSE [x \in DOMAIN us |-> [us[x] EXCEPT !.global_threshold = v]]

set_user_global_threshold(us, u, v) ==
    IF u \notin DOMAIN us THEN us
    ELSE [us EXCEPT ![u].global_threshold = v]

set_user_token_threshold_ok(us, u, t) ==
    u \in DOMAIN us /\ t \in Range(us[u].tracked_tokens)

set_user_token_threshold(us, u, t, v, d) ==
    IF ~set_user_token_threshold_ok(us, u, t) THEN us
    ELSE [us EXCEPT ![u].token_thresholds[t] = [value |-> v, direction |-> d]]

\* A faulty variant: the global threshold wins over a per-token rule.
get_user_thresholdGlobalOnly(us, u, t) ==
    IF u \notin DOMAIN us
    THEN [value |-> DefaultThreshold, direction |-> "both"]
    ELSE [value |-> us[u].global_threshold, direction |-> "both"]

get_user_threshold(us, u, t) ==
    IF u \notin DOMAIN us
    THEN [value |-> DefaultThreshold, direction |-> "both"]
    ELSE IF t # NoToken /\ us[u].token_thresholds[t] # NoRule
         THEN us[u].token_thresholds[t]
         ELSE [value |-> us[u].global_threshold, direction |-> "both"]

get_users_tracking_token(us, order, t) ==
    SelectSeq(order, LAMBDA u : us[u].active /\ t \in Range(us[u].tracked_tokens))

get_entry_price(us, u, t) ==
    IF u \in DOMAIN us THEN us[u].entry_prices[t] ELSE None

\* The second definition of set_entry_price in the class, the one Python keeps.
set_entry_price(us, u, t, p) ==
    IF u \notin DOMAIN us THEN us
    ELSE [us EXCEPT ![u].entry_prices[t] = p]

\* A faulty variant: the tokens of deactivated users are collected too.
get_all_tracked_tokensOfAnyone(us) ==
    UNION {Range(us[u].tracked_tokens) : u \in DOMAIN us}

get_all_tracked_tokens(us) ==
    UNION {Range(us[u].tracked_tokens) : u \in {v \in DOMAIN us : us[v].active}}

\* A faulty variant: deactivating also empties the user's token list.
deactivate_userForgets(us, u) ==
    IF u \notin DOMAIN us THEN us
    ELSE [us EXCEPT ![u].active = FALSE, ![u].tracked_tokens = <<>>]

deactivate_user(us, u) ==
    IF u \notin DOMAIN us THEN us
    ELSE [us EXCEPT ![u].active = FALSE]

-----------------------------------------------------------------------------
(* What a step shows to the outside: the message it hands to the bot, the  *)
(* log line it writes, the command it completes.                           *)

NoEv ==
    [type |-> "none", user |-> NoUser, token |-> NoToken, old |-> None,
     new |-> None, via |-> "none", evals |-> <<>>, alerted |-> {},
     seeded |-> {}, audited |-> NoUser, repeat |-> FALSE,
     confirmed |-> FALSE]

Ev(type, u, t) == [NoEv EXCEPT !.type = type, !.user = u, !.token = t]

-----------------------------------------------------------------------------
(* TokenTracker: start, _initialize_cache, _backfill_missing_entry_prices   *)

\* The global price cache after the first loop of _initialize_cache.
initial_price_cache(us, pc, plog) ==
    [t \in TokenAddrs |->
        IF t \in get_all_tracked_tokens(us) /\ plog[t] # None
        THEN plog[t] ELSE pc[t]]

\* One user's entry of the per-user cache after the second loop: the truthy
\* entry price, else the global cache's price, else no key.
initial_reference(us, pc, u, t) ==
    IF t \notin Range(get_user_tokens(us, u)) THEN None
    ELSE IF get_entry_price(us, u, t) # None /\ get_entry_price(us, u, t) # 0
         THEN get_entry_price(us, u, t)
         ELSE pc[t]

_initialize_cache_users(us, pc, upc) ==
    [u \in UserIds |->
        IF is_user_active(us, u)
        THEN [t \in TokenAddrs |-> initial_reference(us, pc, u, t)]
        ELSE upc[u]]

\* failed records the pairs whose backfill request failed.
StoppedEngine ==
    [pc |-> "stopped", users |-> <<>>, user |-> NoUser, idx |-> 1,
     token |-> NoToken, failed |-> {}]

\* The backfill from (user u, index idx of its live token list) up to its next
\* gateway call, or to its end.  todo are the active users still to visit.
RECURSIVE BackfillScan(_, _, _, _)
BackfillScan(us, todo, u, idx) ==
    IF u = NoUser
    THEN IF todo = <<>>
         THEN [StoppedEngine EXCEPT !.pc = "running"]
         ELSE BackfillScan(us, Tail(todo), Head(todo), 1)
    ELSE IF idx > Len(get_user_tokens(us, u))
         THEN BackfillScan(us, todo, NoUser, 1)
         ELSE IF get_entry_price(us, u, get_user_tokens(us, u)[idx]) = None
              THEN [pc |-> "backfill", users |-> todo, user |-> u,
                    idx |-> idx + 1, token |-> get_user_tokens(us, u)[idx],
                    failed |-> {}]
              ELSE BackfillScan(us, todo, u, idx + 1)

Start ==
    /\ engine.pc = "stopped"
    /\ ~_running
    /\ _running' = TRUE
    /\ _price_cache' = initial_price_cache(users, _price_cache, price_log)
    /\ _user_price_cache' =
           _initialize_cache_users(users, _price_cache', _user_price_cache)
    /\ engine' = BackfillScan(users, get_active_users(users, users_order), NoUser, 1)
    /\ ev' = Ev("started", NoUser, NoToken)
    /\ notifier' = [notifier EXCEPT !.running = TRUE]
    /\ UNCHANGED <<limiter, count_call, add_calls, info_call>>
    /\ UNCHANGED <<users, users_order, _holder_cache, _message_queue, price_log,
                   price, holder, cmd, ncmd, alerted_at, nanswers, nholders>>

\* A faulty variant: a failed request ends the backfill.
BackfillResumeAborts(us, e) == [StoppedEngine EXCEPT !.pc = "running"]

\* The for loops go on after the body for the pair (e.user, e.token), whether
\* it set the entry price or logged the failure (lines 90-91).
BackfillResume(us, e) == BackfillScan(us, e.users, e.user, e.idx)

\* The price gateway answers the backfill's request.
BackfillFetchReturn(c) ==
    /\ CanAnswer
    /\ nanswers' = nanswers + 1
    /\ nholders' = nholders
    /\ engine.pc = "backfill"
    /\ users' = set_entry_price(users, engine.user, engine.token, c)
    /\ engine' = [BackfillScan(users', engine.users, engine.user, engine.idx)
                      EXCEPT !.failed = engine.failed]
    /\ ev' = [Ev("backfilled", engine.user, engine.token) EXCEPT !.new = c]
    /\ UNCHANGED <<limiter, notifier, count_call, add_calls, info_call>>
    /\ UNCHANGED <<users_order, _running, _price_cache, _holder_cache,
                   _user_price_cache, _message_queue, price_log, price, holder,
                   cmd, ncmd, alerted_at>>

\* The request fails: the warning is logged and the loop goes on.
BackfillFetchFail ==
    /\ CanAnswer
    /\ nanswers' = nanswers + 1
    /\ nholders' = nholders
    /\ engine.pc = "backfill"
    /\ engine' = [BackfillResume(users, engine) EXCEPT
                      !.failed = engine.failed \cup
                                     {<<engine.user, engine.token>>}]
    /\ ev' = Ev("backfill_failed", engine.user, engine.token)
    /\ UNCHANGED <<limiter, notifier, count_call, add_calls, info_call>>
    /\ UNCHANGED <<users, users_order, _running, _price_cache, _holder_cache,
                   _user_price_cache, _message_queue, price_log, price, holder,
                   cmd, ncmd, alerted_at>>

-----------------------------------------------------------------------------
(* TokenTracker._track_prices and _check_price                              *)

IdlePrice ==
    [pc |-> "idle", tokens |-> <<>>, token |-> NoToken, price |-> None,
     users |-> <<>>, user |-> NoUser, alerted |-> {}, seeded |-> {},
     all_tokens |-> {}, visited |-> <<>>, failed |-> {}, inflight |-> FALSE]

\* The directional test with strict comparisons, a faulty variant.
MeetsThresholdOff(ref, cur, rule) ==
    IF rule.direction = "both"
    THEN Abs((cur - ref) * 100) > rule.value * ref
    ELSE IF rule.direction = "positive"
         THEN (cur - ref) * 100 > rule.value * ref
         ELSE IF rule.direction = "negative"
              THEN (cur - ref) * 100 < (0 - rule.value) * ref
              ELSE FALSE

\* The directional test of lines 156-162.  change_percent is
\* (cur - ref) / ref * 100 with ref > 0, so change_percent >= v is
\* (cur - ref) * 100 >= v * ref.
MeetsThreshold(ref, cur, rule) ==
    IF rule.direction = "both"
    THEN Abs((cur - ref) * 100) >= rule.value * ref
    ELSE IF rule.direction = "positive"
         THEN (cur - ref) * 100 >= rule.value * ref
         ELSE IF rule.direction = "negative"
              THEN (cur - ref) * 100 <= (0 - rule.value) * ref
              ELSE FALSE

\* A faulty variant: the first observation leaves the cache as it is.
SeedReferenceDropped(upc, u, t, c) == upc

\* Lines 197-199: the first observation seeds the user's reference.
SeedReference(upc, u, t, c) == [upc EXCEPT ![u][t] = c]

\* A faulty variant: the reference follows the price at every poll.
BelowThresholdTracks(upc, u, t, c) == [upc EXCEPT ![u][t] = c]

\* Lines 192-194: below the threshold the check only writes a debug line.
BelowThreshold(upc, u, t, c) == upc

Eval(u, ref, rule, fired) ==
    [user |-> u, ref |-> ref, rule |-> rule, fired |-> fired]

\* The user loop of lines 143-200 over todo, up to its next suspension (the
\* delivery of an alert) or to its end.
RECURSIVE PriceUserLoop(_, _, _, _, _, _)
PriceUserLoop(us, upc, t, c, todo, evals) ==
    IF todo = <<>>
    THEN [pc |-> "done", upc |-> upc, user |-> NoUser, users |-> <<>>,
          old |-> None, evals |-> evals]
    ELSE LET u == Head(todo)
             ref == upc[u][t]
             rule == get_user_threshold(us, u, t)
         IN  IF ref # None /\ ref # 0 /\ ref > 0
             THEN IF MeetsThreshold(ref, c, rule)
                  THEN [pc |-> "send", upc |-> upc, user |-> u,
                        users |-> Tail(todo), old |-> ref,
                        evals |-> Append(evals, Eval(u, ref, rule, TRUE))]
                  ELSE PriceUserLoop(us, BelowThreshold(upc, u, t, c), t, c,
                                     Tail(todo),
                                     Append(evals, Eval(u, ref, rule, FALSE)))
             ELSE PriceUserLoop(us, SeedReference(upc, u, t, c), t, c, Tail(todo),
                                Append(evals, Eval(u, ref, NoRule, FALSE)))

\* The loop `for token in all_tokens` moves on: the next _check_price suspends
\* in the gateway, or the cycle is over and the task sleeps.
NextPriceToken(p) ==
    IF p.tokens = <<>>
    THEN [p EXCEPT !.pc = "idle", !.token = NoToken, !.price = None,
                   !.users = <<>>, !.user = NoUser, !.alerted = {},
                   !.seeded = {}]
    ELSE [p EXCEPT !.pc = "fetch", !.token = Head(p.tokens),
                   !.tokens = Tail(p.tokens), !.price = None, !.users = <<>>,
                   !.user = NoUser, !.alerted = {}, !.seeded = {},
                   !.inflight = FALSE,
                   !.visited = Append(p.visited, Head(p.tokens))]

\* A faulty variant: the exception leaves _check_price and ends the cycle in
\* the handler of _track_prices.
CheckPriceExceptRaises(p) == [p EXCEPT !.pc = "backoff", !.tokens = <<>>]

\* Lines 204-207: _check_price catches every exception, logs it and returns.
CheckPriceExcept(p) == NextPriceToken(p)

\* A faulty variant: the loop never looks at the flag.
LoopContinuesAlways(running) == TRUE

\* `while self._running`, evaluated when an iteration and its sleep are over.
LoopContinues(running) == running

PriceCycleStart ==
    /\ engine.pc = "running"
    /\ LoopContinues(_running)
    /\ price.pc = "idle"
    /\ \E order \in Orderings(get_all_tracked_tokens(users)) :
           price' = NextPriceToken(
               [IdlePrice EXCEPT !.tokens = order,
                                 !.all_tokens = get_all_tracked_tokens(users)])
    /\ ev' = Ev("price_cycle", NoUser, NoToken)
    /\ UNCHANGED <<limiter, notifier, count_call, add_calls, info_call>>
    /\ UNCHANGED <<users, users_order, _running, _price_cache, _holder_cache,
                   _user_price_cache, _message_queue, price_log, engine, holder,
                   cmd, ncmd, alerted_at, nanswers, nholders>>

\* Lines 143-202 for the users of todo: the user loop, then either the
\* suspension in send_price_alert_to_user or the end of the check.
PriceEvaluate(t, c, todo, alerted, seeded, audited, aat) ==
    LET r == PriceUserLoop(users, _user_price_cache, t, c, todo, <<>>)
        seeded1 == seeded \cup {e.user : e \in {x \in Range(r.evals) : x.ref = None}}
    IN  /\ _user_price_cache' = r.upc
        /\ IF r.pc = "send"
           THEN /\ price' = [price EXCEPT !.pc = "send", !.price = c,
                                          !.user = r.user, !.users = r.users,
                                          !.alerted = alerted \cup {r.user},
                                          !.seeded = seeded1]
                /\ _price_cache' = _price_cache
                /\ alerted_at' = [aat EXCEPT ![r.user][t] = c]
                /\ ev' = [Ev("price_alert", r.user, t) EXCEPT
                             !.old = r.old, !.new = c, !.evals = r.evals,
                             !.alerted = alerted \cup {r.user},
                             !.seeded = seeded1, !.audited = audited,
                             !.repeat = (aat[r.user][t] = c)]
           ELSE /\ price' = NextPriceToken(price)
                /\ _price_cache' = [_price_cache EXCEPT ![t] = c]
                /\ alerted_at' = aat
                /\ ev' = [Ev("price_checked", NoUser, t) EXCEPT
                             !.new = c, !.evals = r.evals, !.alerted = alerted,
                             !.seeded = seeded1, !.audited = audited]

\* The gateway answers with price c: lines 133-141, then the user loop.
PriceFetchReturn(c) ==
    /\ CanAnswer
    /\ nanswers' = nanswers + 1
    /\ nholders' = nholders
    /\ price.pc = "fetch"
    /\ ~SessionClosed \/ price.inflight
    /\ price_log' = [price_log EXCEPT ![price.token] = c]
    /\ PriceEvaluate(price.token, c,
                     get_users_tracking_token(users, users_order, price.token),
                     {}, {}, NoUser,
                     [u \in UserIds |->
                         [alerted_at[u] EXCEPT
                             ![price.token] = IF @ = c THEN c ELSE None]])
    /\ UNCHANGED <<limiter, notifier, count_call, add_calls, info_call>>
    /\ UNCHANGED <<users, users_order, _running, _holder_cache, _message_queue,
                   engine, holder, cmd, ncmd>>

\* The gateway raises APIError, or the request finds the session closed by
\* stop(): the except clause of _check_price.
PriceFetchFail ==
    /\ CanAnswer
    /\ nanswers' = nanswers + 1
    /\ nholders' = nholders
    /\ price.pc = "fetch"
    /\ price' = CheckPriceExcept([price EXCEPT !.failed = @ \cup {price.token}])
    /\ ev' = [Ev("price_failed", NoUser, price.token) EXCEPT
                 !.via = IF SessionClosed /\ ~price.inflight
                         THEN "closed" ELSE "none"]
    /\ UNCHANGED <<limiter, notifier, count_call, add_calls, info_call>>
    /\ UNCHANGED <<users, users_order, _running, _price_cache, _holder_cache,
                   _user_price_cache, _message_queue, price_log, engine, holder,
                   cmd, ncmd, alerted_at>>

\* bot.send_message returns (or raises TelegramError, which
\* _send_message_to_user swallows), save_alert_log appends the audit record,
\* and the user loop goes on with the users still in its snapshot.
PriceSendReturn ==
    /\ price.pc = "send"
    /\ PriceEvaluate(price.token, price.price, price.users, price.alerted,
                     price.seeded, price.user, alerted_at)
    /\ UNCHANGED <<limiter, notifier, count_call, add_calls, info_call>>
    /\ UNCHANGED <<users, users_order, _running, _holder_cache, _message_queue,
                   price_log, engine, holder, cmd, ncmd, nanswers, nholders>>

\* bot.send_message returns and save_alert_log raises (the alert file cannot
\* be read or written): the except clause of _check_price.
PriceSendReturnAuditFail ==
    /\ price.pc = "send"
    /\ price' = CheckPriceExcept(price)
    /\ ev' = [Ev("price_failed", price.user, price.token) EXCEPT
                 !.new = price.price, !.alerted = price.alerted]
    /\ UNCHANGED <<limiter, notifier, count_call, add_calls, info_call>>
    /\ UNCHANGED <<users, users_order, _running, _price_cache, _holder_cache,
                   _user_price_cache, _message_queue, price_log, engine, holder,
                   cmd, ncmd, alerted_at, nanswers, nholders>>

-----------------------------------------------------------------------------
(* TokenTracker._track_holders and _check_holders                           *)

IdleHolder ==
    [pc |-> "idle", tokens |-> <<>>, token |-> NoToken, count |-> None,
     old |-> None, users |-> <<>>, user |-> NoUser, all_tokens |-> {},
     visited |-> <<>>, failed |-> {}]

\* Lines 221-226: the count changed, and by at least 10 holders or by at least
\* 10 percent of the old count (the percentage is 0 when the old count is 0).
\* A faulty variant: both steps have to be reached.
HolderAlertDueBoth(old, n) ==
    /\ old # n
    /\ Abs(n - old) >= HolderCountStep
    /\ old > 0 /\ Abs(n - old) * 100 >= HolderPercentStep * old

HolderAlertDue(old, n) ==
    /\ old # n
    /\ \/ Abs(n - old) >= HolderCountStep
       \/ old > 0 /\ Abs(n - old) * 100 >= HolderPercentStep * old

NextHolderToken(h) ==
    IF h.tokens = <<>>
    THEN [h EXCEPT !.pc = "idle", !.token = NoToken, !.count = None,
                   !.old = None, !.users = <<>>, !.user = NoUser]
    ELSE [h EXCEPT !.pc = "fetch", !.token = Head(h.tokens),
                   !.tokens = Tail(h.tokens), !.count = None, !.old = None,
                   !.users = <<>>, !.user = NoUser,
                   !.visited = Append(h.visited, Head(h.tokens))]

\* A faulty variant: the exception leaves _check_holders and ends the cycle
\* in the handler of _track_holders.
CheckHoldersExceptRaises(h) == [h EXCEPT !.pc = "backoff", !.tokens = <<>>]

\* Lines 272-275: _check_holders catches every exception, logs it and returns.
CheckHoldersExcept(h) == NextHolderToken(h)

HolderCycleStart ==
    /\ engine.pc = "running"
    /\ LoopContinues(_running)
    /\ holder.pc = "idle"
    /\ \E order \in Orderings(get_all_tracked_tokens(users)) :
           holder' = NextHolderToken(
               [IdleHolder EXCEPT !.tokens = order,
                                  !.all_tokens = get_all_tracked_tokens(users)])
    /\ ev' = Ev("holder_cycle", NoUser, NoToken)
    /\ UNCHANGED <<limiter, notifier, count_call, add_calls, info_call>>
    /\ UNCHANGED <<users, users_order, _running, _price_cache, _holder_cache,
                   _user_price_cache, _message_queue, price_log, engine, price,
                   cmd, ncmd, alerted_at, nanswers, nholders>>

\* The holder gateway answers with count n (0 when all its strategies fail):
\* lines 214-230, up to the request for the token's name, or lines 214-270.
HolderFetchReturn(n) ==
    /\ CanAnswerHolders
    /\ nholders' = nholders + 1
    /\ nanswers' = nanswers
    /\ holder.pc = "fetch"
    /\ IF _holder_cache[holder.token] # None
          /\ HolderAlertDue(_holder_cache[holder.token], n)
       THEN /\ holder' = [holder EXCEPT
                  !.pc = "info", !.count = n,
                  !.failed = IF n = 0 THEN @ \cup {holder.token} ELSE @,
                  !.old = _holder_cache[holder.token],
                  !.users = get_users_tracking_token(users, users_order,
                                                     holder.token)]
            /\ _holder_cache' = _holder_cache
            /\ ev' = [Ev("holder_due", NoUser, holder.token) EXCEPT
                         !.old = _holder_cache[holder.token], !.new = n]
       ELSE /\ holder' = NextHolderToken(
                  [holder EXCEPT
                      !.failed = IF n = 0 THEN @ \cup {holder.token} ELSE @])
            /\ _holder_cache' = [_holder_cache EXCEPT ![holder.token] = n]
            /\ ev' = [Ev("holder_checked", NoUser, holder.token) EXCEPT
                         !.old = _holder_cache[holder.token], !.new = n]
    /\ UNCHANGED <<limiter, notifier, count_call, add_calls, info_call>>
    /\ UNCHANGED <<users, users_order, _running, _price_cache,
                   _user_price_cache, _message_queue, price_log, engine, price,
                   cmd, ncmd, alerted_at>>

\* Lines 252-270 from the user list todo: the next delivery, or, after the
\* last one, the audit records and the cache update.
HolderDeliver(todo) ==
    IF todo # <<>>
    THEN /\ holder' = [holder EXCEPT !.pc = "send", !.user = Head(todo),
                                     !.users = Tail(todo)]
         /\ _holder_cache' = _holder_cache
         /\ ev' = [Ev("holder_alert", Head(todo), holder.token) EXCEPT
                      !.old = holder.old, !.new = holder.count]
    ELSE /\ holder' = NextHolderToken(holder)
         /\ _holder_cache' = [_holder_cache EXCEPT ![holder.token] = holder.count]
         /\ ev' = [Ev("holder_checked", NoUser, holder.token) EXCEPT
                      !.old = holder.old, !.new = holder.count]

\* The price gateway answers the request for the token's name, or fails, which
\* lines 237-239 swallow: the deliveries start.
HolderInfoReturn ==
    /\ CanAnswer
    /\ nanswers' = nanswers + 1
    /\ nholders' = nholders
    /\ holder.pc = "info"
    /\ HolderDeliver(holder.users)
    /\ UNCHANGED <<limiter, notifier, count_call, add_calls, info_call>>
    /\ UNCHANGED <<users, users_order, _running, _price_cache,
                   _user_price_cache, _message_queue, price_log, engine, price,
                   cmd, ncmd, alerted_at>>

\* bot.send_message returns or raises TelegramError.
HolderSendReturn ==
    /\ holder.pc = "send"
    /\ HolderDeliver(holder.users)
    /\ UNCHANGED <<limiter, notifier, count_call, add_calls, info_call>>
    /\ UNCHANGED <<users, users_order, _running, _price_cache,
                   _user_price_cache, _message_queue, price_log, engine, price,
                   cmd, ncmd, alerted_at, nanswers, nholders>>

\* The last delivery returns and save_alert_log raises: the except clause.
HolderSendReturnAuditFail ==
    /\ holder.pc = "send"
    /\ holder.users = <<>>
    /\ holder' = CheckHoldersExcept(holder)
    /\ ev' = Ev("holder_failed", holder.user, holder.token)
    /\ UNCHANGED <<limiter, notifier, count_call, add_calls, info_call>>
    /\ UNCHANGED <<users, users_order, _running, _price_cache, _holder_cache,
                   _user_price_cache, _message_queue, price_log, engine, price,
                   cmd, ncmd, alerted_at, nanswers, nholders>>

-----------------------------------------------------------------------------
(* TokenTracker.stop and the end of the loops                               *)

\* stop(): the flag is cleared and the gateway sessions are closed.  A price
\* request under way at that moment may still be answered; one begun later
\* finds the session closed.
Stop ==
    /\ _running
    /\ _running' = FALSE
    /\ price' = [price EXCEPT !.inflight = (price.pc = "fetch")]
    /\ ev' = Ev("stopped", NoUser, NoToken)
    /\ notifier' = [notifier EXCEPT !.running = FALSE]
    /\ UNCHANGED <<limiter, count_call, add_calls, info_call>>
    /\ UNCHANGED <<users, users_order, _price_cache, _holder_cache,
                   _user_price_cache, _message_queue, price_log, engine, holder,
                   cmd, ncmd, alerted_at, nanswers, nholders>>

\* _track_prices finds the flag cleared after its sleep and returns.
PriceLoopExit ==
    /\ engine.pc = "running"
    /\ ~LoopContinues(_running)
    /\ price.pc = "idle"
    /\ price' = [price EXCEPT !.pc = "done"]
    /\ ev' = Ev("price_loop_exit", NoUser, NoToken)
    /\ UNCHANGED <<limiter, notifier, count_call, add_calls, info_call>>
    /\ UNCHANGED <<users, users_order, _running, _price_cache, _holder_cache,
                   _user_price_cache, _message_queue, price_log, engine, holder,
                   cmd, ncmd, alerted_at, nanswers, nholders>>

\* _track_holders finds the flag cleared after its sleep and returns.
HolderLoopExit ==
    /\ engine.pc = "running"
    /\ ~LoopContinues(_running)
    /\ holder.pc = "idle"
    /\ holder' = [holder EXCEPT !.pc = "done"]
    /\ ev' = Ev("holder_loop_exit", NoUser, NoToken)
    /\ UNCHANGED <<limiter, notifier, count_call, add_calls, info_call>>
    /\ UNCHANGED <<users, users_order, _running, _price_cache, _holder_cache,
                   _user_price_cache, _message_queue, price_log, engine, price,
                   cmd, ncmd, alerted_at, nanswers, nholders>>

\* asyncio.gather returns when both tasks are done, and start() with it.
StartReturn ==
    /\ engine.pc = "running"
    /\ price.pc = "done"
    /\ holder.pc = "done"
    /\ engine' = [engine EXCEPT !.pc = "returned"]
    /\ ev' = Ev("start_returned", NoUser, NoToken)
    /\ UNCHANGED <<limiter, notifier, count_call, add_calls, info_call>>
    /\ UNCHANGED <<users, users_order, _running, _price_cache, _holder_cache,
                   _user_price_cache, _message_queue, price_log, price, holder,
                   cmd, ncmd, alerted_at, nanswers, nholders>>

-----------------------------------------------------------------------------
(* TokenTracker.remove_token, on the registry us and the engine's caches.   *)

\* A faulty variant: the shared caches are never cleared.
EvictKept(us, order, cache, t) == cache

\* Lines 340-344: the shared caches lose t when no active user tracks it.

Evict(us, order, cache, t) ==
    IF get_users_tracking_token(us, order, t) = <<>>
    THEN [cache EXCEPT ![t] = None]
    ELSE cache

remove_token(us, order, pc, hc, upc, u, t) ==
    IF is_user_active(us, u) /\ remove_token_ok(us, u, t)
    THEN [ok |-> TRUE,
          users |-> remove_token_from_user(us, u, t),
          upc |-> [upc EXCEPT ![u][t] = None],
          pc |-> Evict(remove_token_from_user(us, u, t), order, pc, t),
          hc |-> Evict(remove_token_from_user(us, u, t), order, hc, t)]
    ELSE [ok |-> FALSE, users |-> us, upc |-> upc, pc |-> pc, hc |-> hc]

-----------------------------------------------------------------------------
(* The commands.  The application handles one update at a time, so one     *)
(* handler is in flight; it suspends in the gateway calls of the engine    *)
(* methods it awaits.                                                      *)

IdleCmd == [pc |-> "idle", user |-> NoUser, token |-> NoToken]

CanCommand == cmd.pc = "idle" /\ ncmd > 0

ClearStanding(aat, u, ts) ==
    [aat EXCEPT ![u] = [t \in TokenAddrs |-> IF t \in ts THEN None ELSE @[t]]]

\* start_command: /start registers or reactivates the sender.
StartCommand(u) ==
    /\ CanCommand
    /\ ncmd' = ncmd - 1
    /\ users' = register_user(users, u)
    /\ users_order' = register_order(users, users_order, u)
    /\ ev' = [Ev("registered", u, NoToken) EXCEPT
                 !.via = IF u \in DOMAIN users THEN "reactivated" ELSE "new",
                 !.repeat = is_user_active(users, u)]
    /\ UNCHANGED <<limiter, notifier, count_call, add_calls, info_call>>
    /\ UNCHANGED <<_running, _price_cache, _holder_cache, _user_price_cache,
                   _message_queue, price_log, engine, price, holder, cmd,
                   alerted_at, nanswers, nholders>>

\* stop_command and the stop button: the sender is deactivated.
StopCommand(u) ==
    /\ CanCommand
    /\ ncmd' = ncmd - 1
    /\ users' = deactivate_user(users, u)
    /\ ev' = [Ev("deactivated", u, NoToken) EXCEPT
                 !.via = IF u \in DOMAIN users THEN "known" ELSE "unknown",
                 !.repeat = u \in DOMAIN users /\ ~users[u].active]
    /\ UNCHANGED <<limiter, notifier, count_call, add_calls, info_call>>
    /\ UNCHANGED <<users_order, _running, _price_cache, _holder_cache,
                   _user_price_cache, _message_queue, price_log, engine, price,
                   holder, cmd, alerted_at, nanswers, nholders>>

\* Lines 145 and 177: `threshold <= 0 or threshold > 100`, false for NaN.
threshold_rejected(v) == v # NaN /\ (v <= 0 \/ v > 100)

\* Line 1237 of handle_text_message: `0 < threshold <= 100`, false for NaN.
text_threshold_accepted(v) == v # NaN /\ 0 < v /\ v <= 100

\* threshold_command.
ThresholdCommand(u, v) ==
    /\ CanCommand
    /\ ncmd' = ncmd - 1
    /\ IF is_user_active(users, u) /\ ~threshold_rejected(v)
       THEN /\ users' = set_user_global_threshold(users, u, v)
            /\ alerted_at' = ClearStanding(alerted_at, u, TokenAddrs)
            /\ ev' = [Ev("threshold", u, NoToken) EXCEPT !.new = v]
       ELSE /\ UNCHANGED <<users, alerted_at>>
            /\ ev' = Ev("rejected", u, NoToken)
    /\ UNCHANGED <<limiter, notifier, count_call, add_calls, info_call>>
    /\ UNCHANGED <<users_order, _running, _price_cache, _holder_cache,
                   _user_price_cache, _message_queue, price_log, engine, price,
                   holder, cmd, nanswers, nholders>>

\* handle_text_message with a text that float() parses, and
\* _handle_threshold_value.
ThresholdMessage(u, v) ==
    /\ CanCommand
    /\ ncmd' = ncmd - 1
    /\ IF is_user_active(users, u) /\ text_threshold_accepted(v)
       THEN /\ users' = set_user_global_threshold(users, u, v)
            /\ alerted_at' = ClearStanding(alerted_at, u, TokenAddrs)
            /\ ev' = [Ev("threshold", u, NoToken) EXCEPT
                         !.new = v, !.via = "text"]
       ELSE /\ UNCHANGED <<users, alerted_at>>
            /\ ev' = [Ev("rejected", u, NoToken) EXCEPT !.via = "text"]
    /\ UNCHANGED <<limiter, notifier, count_call, add_calls, info_call>>
    /\ UNCHANGED <<users_order, _running, _price_cache, _holder_cache,
                   _user_price_cache, _message_queue, price_log, engine, price,
                   holder, cmd, nanswers, nholders>>

\* set_token_threshold_command.
SetTokenThresholdCommand(u, t, v, d) ==
    /\ CanCommand
    /\ ncmd' = ncmd - 1
    /\ IF /\ is_user_active(users, u)
          /\ d \in Directions
          /\ ~threshold_rejected(v)
          /\ t \in Range(get_user_tokens(users, u))
       THEN /\ users' = set_user_token_threshold(users, u, t, v, d)
            /\ alerted_at' = ClearStanding(alerted_at, u, {t})
            /\ ev' = [Ev("token_threshold", u, t) EXCEPT !.new = v, !.via = d]
       ELSE /\ UNCHANGED <<users, alerted_at>>
            /\ ev' = Ev("rejected", u, t)
    /\ UNCHANGED <<limiter, notifier, count_call, add_calls, info_call>>
    /\ UNCHANGED <<users_order, _running, _price_cache, _holder_cache,
                   _user_price_cache, _message_queue, price_log, engine, price,
                   holder, cmd, nanswers, nholders>>

\* add_command up to the gateway call of TokenTracker.add_token (line 295).
AddCommand(u, t) ==
    /\ CanCommand
    /\ ncmd' = ncmd - 1
    /\ IF is_user_active(users, u) /\ t \notin Range(get_user_tokens(users, u))
       THEN /\ cmd' = [pc |-> "add_fetch", user |-> u, token |-> t]
            /\ ev' = [Ev("adding", u, t) EXCEPT !.via = "add"]
       ELSE /\ cmd' = cmd
            /\ ev' = [Ev("rejected", u, t) EXCEPT !.via = "add"]
    /\ UNCHANGED <<limiter, notifier, count_call, add_calls, info_call>>
    /\ UNCHANGED <<users, users_order, _running, _price_cache, _holder_cache,
                   _user_price_cache, _message_queue, price_log, engine, price,
                   holder, alerted_at, nanswers, nholders>>

\* TokenTracker.add_token from line 296 (the gateway answered with c) or from
\* line 297 (it raised, entry = None) to its return.
AddFinish(entry) ==
    /\ CanAnswer
    /\ nanswers' = nanswers + 1
    /\ nholders' = nholders
    /\ cmd.pc = "add_fetch"
    /\ cmd' = IdleCmd
    /\ users' = add_token_to_user(users, cmd.user, cmd.token, entry)
    /\ IF add_token_ok(users, cmd.user, cmd.token)
       THEN /\ _user_price_cache' =
                   IF entry # None /\ entry # 0
                   THEN [_user_price_cache EXCEPT ![cmd.user][cmd.token] = entry]
                   ELSE _user_price_cache
            /\ alerted_at' = ClearStanding(alerted_at, cmd.user, {cmd.token})
            /\ ev' = [Ev("added", cmd.user, cmd.token) EXCEPT
                         !.new = entry, !.via = "add", !.confirmed = TRUE]
       ELSE /\ UNCHANGED <<_user_price_cache, alerted_at>>
            /\ ev' = [Ev("rejected", cmd.user, cmd.token) EXCEPT
                         !.new = entry, !.via = "add"]
    /\ UNCHANGED <<limiter, notifier, count_call, add_calls, info_call>>
    /\ UNCHANGED <<users_order, _running, _price_cache, _holder_cache,
                   _message_queue, price_log, engine, price, holder, ncmd>>

AddFetchReturn(c) == AddFinish(c)

AddFetchFail == AddFinish(None)

\* remove_command and the remove button: the registry first, then the engine
\* when no active user has the token any more.
RemoveCommand(u, t) ==
    /\ CanCommand
    /\ ncmd' = ncmd - 1
    /\ IF is_user_active(users, u) /\ t \in Range(get_user_tokens(users, u))
       THEN LET us1 == remove_token_from_user(users, u, t)
                still_tracked ==
                    \E v \in DOMAIN us1 :
                        us1[v].active /\ t \in Range(us1[v].tracked_tokens)
                r == IF still_tracked
                     THEN [ok |-> FALSE, users |-> us1,
                           upc |-> _user_price_cache, pc |-> _price_cache,
                           hc |-> _holder_cache]
                     ELSE remove_token(us1, users_order, _price_cache,
                                       _holder_cache, _user_price_cache, u, t)
            IN  /\ users' = r.users
                /\ _user_price_cache' = r.upc
                /\ _price_cache' = r.pc
                /\ _holder_cache' = r.hc
                /\ alerted_at' = ClearStanding(alerted_at, u, {t})
                /\ ev' = [Ev("removed", u, t) EXCEPT !.via = "command"]
       ELSE /\ UNCHANGED <<users, _user_price_cache, _price_cache,
                           _holder_cache, alerted_at>>
            /\ ev' = Ev("rejected", u, t)
    /\ UNCHANGED <<limiter, notifier, count_call, add_calls, info_call>>
    /\ UNCHANGED <<users_order, _running, _message_queue, price_log, engine,
                   price, holder, cmd, nanswers, nholders>>

\* TokenTracker.remove_token called on the engine itself.
EngineRemoveToken(u, t) ==
    /\ CanCommand
    /\ ncmd' = ncmd - 1
    /\ LET r == remove_token(users, users_order, _price_cache, _holder_cache,
                             _user_price_cache, u, t)
       IN  /\ users' = r.users
           /\ _user_price_cache' = r.upc
           /\ _price_cache' = r.pc
           /\ _holder_cache' = r.hc
           /\ alerted_at' = IF r.ok THEN ClearStanding(alerted_at, u, {t})
                            ELSE alerted_at
           /\ ev' = IF r.ok
                    THEN [Ev("removed", u, t) EXCEPT !.via = "engine"]
                    ELSE Ev("rejected", u, t)
    /\ UNCHANGED <<limiter, notifier, count_call, add_calls, info_call>>
    /\ UNCHANGED <<users_order, _running, _message_queue, price_log, engine,
                   price, holder, cmd, nanswers, nholders>>

\* reset_command up to the gateway call of reset_price_reference (line 377).
ResetCommand(u, t) ==
    /\ CanCommand
    /\ ncmd' = ncmd - 1
    /\ IF is_user_active(users, u) /\ t \in Range(get_user_tokens(users, u))
       THEN /\ cmd' = [pc |-> "reset_fetch", user |-> u, token |-> t]
            /\ ev' = Ev("resetting", u, t)
       ELSE /\ cmd' = cmd
            /\ ev' = [Ev("rejected", u, t) EXCEPT !.via = "reset"]
    /\ UNCHANGED <<limiter, notifier, count_call, add_calls, info_call>>
    /\ UNCHANGED <<users, users_order, _running, _price_cache, _holder_cache,
                   _user_price_cache, _message_queue, price_log, engine, price,
                   holder, alerted_at, nanswers, nholders>>

\* A faulty variant: the reset leaves the reference as it is.
reset_referenceDropped(upc, u, t, c) == upc

\* Lines 381-383: the fetched price becomes the user's reference.
reset_reference(upc, u, t, c) == [upc EXCEPT ![u][t] = c]

\* reset_price_reference from line 378 to its return.
ResetFetchReturn(c) ==
    /\ CanAnswer
    /\ nanswers' = nanswers + 1
    /\ nholders' = nholders
    /\ cmd.pc = "reset_fetch"
    /\ cmd' = IdleCmd
    /\ _user_price_cache' =
           reset_reference(_user_price_cache, cmd.user, cmd.token, c)
    /\ _price_cache' = [_price_cache EXCEPT ![cmd.token] = c]
    /\ price_log' = [price_log EXCEPT ![cmd.token] = c]
    /\ alerted_at' = ClearStanding(alerted_at, cmd.user, {cmd.token})
    /\ ev' = [Ev("reset", cmd.user, cmd.token) EXCEPT !.new = c]
    /\ UNCHANGED <<limiter, notifier, count_call, add_calls, info_call>>
    /\ UNCHANGED <<users, users_order, _running, _holder_cache, _message_queue,
                   engine, price, holder, ncmd>>

\* The gateway raises: lines 410-412 log and re-raise, the handler replies.
ResetFetchFail ==
    /\ CanAnswer
    /\ nanswers' = nanswers + 1
    /\ nholders' = nholders
    /\ cmd.pc = "reset_fetch"
    /\ cmd' = IdleCmd
    /\ ev' = Ev("reset_failed", cmd.user, cmd.token)
    /\ UNCHANGED <<limiter, notifier, count_call, add_calls, info_call>>
    /\ UNCHANGED <<users, users_order, _running, _price_cache, _holder_cache,
                   _user_price_cache, _message_queue, price_log, engine, price,
                   holder, ncmd, alerted_at>>

-----------------------------------------------------------------------------
(* BaseAPI._rate_limit_check, for one gateway instance.  Time is counted in *)
(* quarters of a second, so the price gateway's rate_limit of 0.5 s is 2.   *)

RateLimit == 2
MaxTime == 6

\* The tasks that send requests through the engine's one DexScreenerAPI.
Callers == {"price_loop", "holder_info", "command"}

\* last_request_time starts at 0 and the loop's clock is far beyond it; wake
\* is the time a caller's sleep ends, started the time its request starts.
IdleLimiter ==
    [now |-> RateLimit, last_request_time |-> 0,
     wake |-> [c \in Callers |-> None],
     started |-> [c \in Callers |-> None]]

\* Lines 29-31: the time since the last request, read on entry.
time_since_last_request(l) == l.now - l.last_request_time

\* Lines 29-33 up to the sleep, or to the end when there is no need to sleep.
RateLimitEnter(c) ==
    /\ limiter.wake[c] = None
    /\ limiter.started[c] = None
    /\ limiter' =
           IF time_since_last_request(limiter) < RateLimit
           THEN [limiter EXCEPT !.wake[c] =
                     limiter.now + (RateLimit - time_since_last_request(limiter))]
           ELSE [limiter EXCEPT !.last_request_time = limiter.now,
                                !.started[c] = limiter.now]
    /\ UNCHANGED <<notifier, count_call, add_calls, info_call>>
    /\ UNCHANGED <<users, users_order, _running, _price_cache, _holder_cache,
                   _user_price_cache, _message_queue, price_log, engine, price,
                   holder, cmd, ncmd, nanswers, nholders, ev, alerted_at>>

\* Line 33 after the sleep of line 32: the caller records the time and goes
\* on to send its request.
RateLimitWake(c) ==
    /\ limiter.wake[c] # None
    /\ limiter.now >= limiter.wake[c]
    /\ limiter' = [limiter EXCEPT !.wake[c] = None,
                                  !.last_request_time = limiter.now,
                                  !.started[c] = limiter.now]
    /\ UNCHANGED <<notifier, count_call, add_calls, info_call>>
    /\ UNCHANGED <<users, users_order, _running, _price_cache, _holder_cache,
                   _user_price_cache, _message_queue, price_log, engine, price,
                   holder, cmd, ncmd, nanswers, nholders, ev, alerted_at>>

\* The event loop's clock advances.
ClockTick ==
    /\ limiter.now < MaxTime
    /\ limiter' = [limiter EXCEPT !.now = @ + 1]
    /\ UNCHANGED <<notifier, count_call, add_calls, info_call>>
    /\ UNCHANGED <<users, users_order, _running, _price_cache, _holder_cache,
                   _user_price_cache, _message_queue, price_log, engine, price,
                   holder, cmd, ncmd, nanswers, nholders, ev, alerted_at>>

-----------------------------------------------------------------------------
(* TelegramNotifier: the queue, its producers and _process_messages.  A    *)
(* message is named by its place in the order of the put calls.            *)

MaxMessages == 2

IdleNotifier ==
    [running |-> FALSE, pc |-> "idle", message |-> 0, todo |-> <<>>,
     nput |-> 0, taken |-> <<>>, log |-> <<>>, undelivered |-> {}]

\* asyncio.Queue() of line 11 has no maxsize: put appends and returns.
queue_put(q, m) == Append(q, m)

\* A faulty variant: the consumer takes the newest message.
queue_getNewest(q) ==
    [message |-> q[Len(q)], queue |-> SubSeq(q, 1, Len(q) - 1)]

\* Line 25: get removes and returns the oldest message.
queue_get(q) == [message |-> Head(q), queue |-> Tail(q)]

\* A faulty variant: the message that could not be delivered is put back.
_send_message_exceptRequeues(q, m) == Append(q, m)

\* Lines 39-40: the TelegramError is printed; the queue is left alone.
_send_message_except(q, m) == q

\* self.chat_ids: main() sets it to the active users and refreshes it from
\* the registry every 5 seconds.
chat_ids(us, order) == get_active_users(us, order)

\* send_price_alert, send_holder_alert, send_custom_alert, send_message,
\* send_error_alert: lines 93-110, each ends in put.
Enqueue ==
    /\ notifier.nput < MaxMessages
    /\ _message_queue' = queue_put(_message_queue, notifier.nput + 1)
    /\ notifier' = [notifier EXCEPT !.nput = @ + 1]
    /\ UNCHANGED <<limiter, count_call, add_calls, info_call>>
    /\ UNCHANGED <<users, users_order, _running, _price_cache, _holder_cache,
                   _user_price_cache, price_log, engine, price, holder, cmd,
                   ncmd, nanswers, nholders, ev, alerted_at>>

\* Lines 22-26 and the start of _send_message: the loop test, the test of
\* the queue, get, and the first bot.send_message (the sleep of line 27 when
\* there is no chat).
ConsumerTake ==
    /\ notifier.running
    /\ notifier.pc = "idle"
    /\ _message_queue # <<>>
    /\ LET g == queue_get(_message_queue)
           chats == chat_ids(users, users_order)
       IN  /\ _message_queue' = g.queue
           /\ notifier' = [notifier EXCEPT
                  !.taken = Append(@, g.message),
                  !.message = IF chats = <<>> THEN 0 ELSE g.message,
                  !.todo = chats,
                  !.pc = IF chats = <<>> THEN "sleep" ELSE "send"]
    /\ UNCHANGED <<limiter, count_call, add_calls, info_call>>
    /\ UNCHANGED <<users, users_order, _running, _price_cache, _holder_cache,
                   _user_price_cache, price_log, engine, price, holder, cmd,
                   ncmd, nanswers, nholders, ev, alerted_at>>

\* Lines 32-40: bot.send_message to the next chat returns, or raises a
\* TelegramError that is caught; then the next chat, or the sleep of line 27.
ConsumerSendReturn(outcome) ==
    /\ notifier.pc = "send"
    /\ _message_queue' =
           IF outcome = "sent" THEN _message_queue
           ELSE _send_message_except(_message_queue, notifier.message)
    /\ notifier' = [notifier EXCEPT
           !.log = Append(@, [message |-> notifier.message,
                              chat |-> Head(notifier.todo),
                              outcome |-> outcome]),
           !.todo = Tail(@),
           !.message = IF Tail(notifier.todo) = <<>> THEN 0 ELSE @,
           !.pc = IF Tail(notifier.todo) = <<>> THEN "sleep" ELSE "send"]
    /\ UNCHANGED <<limiter, count_call, add_calls, info_call>>
    /\ UNCHANGED <<users, users_order, _running, _price_cache, _holder_cache,
                   _user_price_cache, price_log, engine, price, holder, cmd,
                   ncmd, nanswers, nholders, ev, alerted_at>>

\* Lines 28-29: bot.send_message raises another exception, which leaves
\* _send_message and is caught in _process_messages; the loop goes on
\* without the sleep.
ConsumerSendRaises ==
    /\ notifier.pc = "send"
    /\ notifier' = [notifier EXCEPT
           !.log = Append(@, [message |-> notifier.message,
                              chat |-> Head(notifier.todo),
                              outcome |-> "error"]),
           !.todo = <<>>, !.message = 0, !.pc = "idle"]
    /\ UNCHANGED <<limiter, count_call, add_calls, info_call>>
    /\ UNCHANGED <<users, users_order, _running, _price_cache, _holder_cache,
                   _user_price_cache, _message_queue, price_log, engine, price,
                   holder, cmd, ncmd, nanswers, nholders, ev, alerted_at>>

\* Line 27: the sleep ends.
ConsumerWake ==
    /\ notifier.pc = "sleep"
    /\ notifier' = [notifier EXCEPT !.pc = "idle"]
    /\ UNCHANGED <<limiter, count_call, add_calls, info_call>>
    /\ UNCHANGED <<users, users_order, _running, _price_cache, _holder_cache,
                   _user_price_cache, _message_queue, price_log, engine, price,
                   holder, cmd, ncmd, nanswers, nholders, ev, alerted_at>>

\* bot.send_message of a user's price alert raises a TelegramError:
\* _send_message_to_user catches it (lines 50-51) and _check_price goes on as
\* after a delivery.
PriceSendFail ==
    /\ price.pc = "send"
    /\ PriceEvaluate(price.token, price.price, price.users, price.alerted,
                     price.seeded, price.user, alerted_at)
    /\ notifier' = [notifier EXCEPT
           !.undelivered = @ \cup {<<price.user, price.token>>}]
    /\ UNCHANGED <<limiter, count_call, add_calls, info_call>>
    /\ UNCHANGED <<users, users_order, _running, _holder_cache, _message_queue,
                   price_log, engine, holder, cmd, ncmd, nanswers, nholders>>

-----------------------------------------------------------------------------
(* SolanaTracker.get_token_holders_count and its strategies.               *)

\* What a strategy's request can come to: an exception (of the request, or
\* of reading an answer that has no usable count), or a count.
Raises == -2
ApiAnswers == {Raises} \cup HolderValuesWide

\* get_program_accounts raises, answers without a result, or the accounts
\* with a balance are counted.
RpcAnswers == {Raises, None} \cup HolderValuesWide

IdleCountCall ==
    [pc |-> "idle", token |-> NoToken, is_pump |-> FALSE, tried |-> <<>>,
     gmgn |-> None, pump |-> None, rpc |-> None, result |-> None]

\* Lines 47-52: the count of the alternative APIs is returned when it is
\* positive; an exception or another count leads to the RPC call.
AlternativeReturns(count) == count # Raises /\ count > 0

\* A faulty variant: what the RPC call comes to is handed to the caller.
RpcResultRaises(r) == r

\* Lines 72-74 and 85-91: 0 without a result or on an exception, else the
\* number of holders.
RpcResult(r) == IF r \in {Raises, None} THEN 0 ELSE r

\* The caller (_check_holders, or a command) calls for token t; the first
\* request is the one to GMGN, lines 97-101.
GetHoldersCall(t, is_pump) ==
    /\ count_call.pc = "idle"
    /\ count_call' = [IdleCountCall EXCEPT
           !.pc = "gmgn", !.token = t, !.is_pump = is_pump,
           !.tried = <<"alternative">>]
    /\ UNCHANGED <<limiter, notifier, add_calls, info_call>>
    /\ UNCHANGED <<users, users_order, _running, _price_cache, _holder_cache,
                   _user_price_cache, _message_queue, price_log, engine, price,
                   holder, cmd, ncmd, nanswers, nholders, ev, alerted_at>>

\* Lines 101-129 and 47-60: GMGN answers g.  A positive count is returned;
\* else Pump.fun is asked when the address holds "pump"; else the
\* alternative strategy returns 0 and the RPC call is made.
GmgnReturn(g) ==
    /\ count_call.pc = "gmgn"
    /\ count_call' =
           IF AlternativeReturns(g)
           THEN [count_call EXCEPT !.pc = "returned", !.gmgn = g, !.result = g]
           ELSE IF count_call.is_pump
           THEN [count_call EXCEPT !.pc = "pump", !.gmgn = g]
           ELSE [count_call EXCEPT !.pc = "rpc", !.gmgn = g,
                                   !.tried = Append(@, "rpc")]
    /\ UNCHANGED <<limiter, notifier, add_calls, info_call>>
    /\ UNCHANGED <<users, users_order, _running, _price_cache, _holder_cache,
                   _user_price_cache, _message_queue, price_log, engine, price,
                   holder, cmd, ncmd, nanswers, nholders, ev, alerted_at>>

\* Lines 119-129 and 47-60: Pump.fun answers p.
PumpReturn(p) ==
    /\ count_call.pc = "pump"
    /\ count_call' =
           IF AlternativeReturns(p)
           THEN [count_call EXCEPT !.pc = "returned", !.pump = p, !.result = p]
           ELSE [count_call EXCEPT !.pc = "rpc", !.pump = p,
                                   !.tried = Append(@, "rpc")]
    /\ UNCHANGED <<limiter, notifier, add_calls, info_call>>
    /\ UNCHANGED <<users, users_order, _running, _price_cache, _holder_cache,
                   _user_price_cache, _message_queue, price_log, engine, price,
                   holder, cmd, ncmd, nanswers, nholders, ev, alerted_at>>

\* Lines 60-91: the RPC call comes to r.
RpcReturn(r) ==
    /\ count_call.pc = "rpc"
    /\ count_call' = [count_call EXCEPT
           !.pc = IF RpcResult(r) = Raises THEN "raised" ELSE "returned",
           !.rpc = r, !.result = RpcResult(r)]
    /\ UNCHANGED <<limiter, notifier, add_calls, info_call>>
    /\ UNCHANGED <<users, users_order, _running, _price_cache, _holder_cache,
                   _user_price_cache, _message_queue, price_log, engine, price,
                   holder, cmd, ncmd, nanswers, nholders, ev, alerted_at>>

-----------------------------------------------------------------------------
(* TokenTracker.add_token called twice, the calls suspended at the same     *)
(* time: each call is a coroutine of its own on the one event loop.         *)

AddCallIds == {1, 2}

\* passed: the call went through both checks of lines 280-290; overlap: it
\* did so while the other call was suspended in the fetch for the same pair.
IdleAddCall ==
    [pc |-> "idle", user |-> NoUser, token |-> NoToken, price |-> None,
     passed |-> FALSE, overlap |-> FALSE, result |-> FALSE]

\* Lines 279-290: the call returns False for a user who is not active or
\* tracks the token already; otherwise it suspends in get_token_price.
AddTokenEnter(i, u, t) ==
    /\ add_calls[i].pc = "idle"
    /\ add_calls' =
           [add_calls EXCEPT ![i] =
               IF is_user_active(users, u)
                  /\ t \notin Range(get_user_tokens(users, u))
               THEN [@ EXCEPT !.pc = "fetch", !.user = u, !.token = t,
                              !.passed = TRUE,
                              !.overlap =
                                  \E j \in AddCallIds \ {i} :
                                      /\ add_calls[j].pc = "fetch"
                                      /\ add_calls[j].user = u
                                      /\ add_calls[j].token = t]
               ELSE [@ EXCEPT !.pc = "returned", !.user = u, !.token = t,
                              !.result = FALSE]]
    /\ UNCHANGED <<limiter, notifier, count_call, info_call>>
    /\ UNCHANGED <<users, users_order, _running, _price_cache, _holder_cache,
                   _user_price_cache, _message_queue, price_log, engine, price,
                   holder, cmd, ncmd, nanswers, nholders, ev, alerted_at>>

\* Lines 293-318 with entry, the fetched price or None when the fetch raised:
\* add_token_to_user, and for a success the reference and the suspension in
\* _send_token_added_confirmation; otherwise the call returns False.
AddTokenResume(i, entry) ==
    LET c == add_calls[i]
    IN  /\ c.pc = "fetch"
        /\ users' = add_token_to_user(users, c.user, c.token, entry)
        /\ IF add_token_ok(users, c.user, c.token)
           THEN /\ _user_price_cache' =
                       IF entry # None /\ entry # 0
                       THEN [_user_price_cache EXCEPT ![c.user][c.token] = entry]
                       ELSE _user_price_cache
                /\ add_calls' = [add_calls EXCEPT ![i].pc = "confirm",
                                                  ![i].price = entry]
           ELSE /\ _user_price_cache' = _user_price_cache
                /\ add_calls' = [add_calls EXCEPT ![i].pc = "returned",
                                                  ![i].price = entry,
                                                  ![i].result = FALSE]
        /\ UNCHANGED <<limiter, notifier, count_call, info_call>>
        /\ UNCHANGED <<users_order, _running, _price_cache, _holder_cache,
                       _message_queue, price_log, engine, price, holder, cmd,
                       ncmd, nanswers, nholders, ev, alerted_at>>

AddTokenFetchReturn(i, c) == AddTokenResume(i, c)

AddTokenFetchFail(i) == AddTokenResume(i, None)

\* _send_token_added_confirmation returns (it swallows its exceptions) and
\* add_token returns True.
AddTokenConfirmReturn(i) ==
    /\ add_calls[i].pc = "confirm"
    /\ add_calls' = [add_calls EXCEPT ![i].pc = "returned", ![i].result = TRUE]
    /\ UNCHANGED <<limiter, notifier, count_call, info_call>>
    /\ UNCHANGED <<users, users_order, _running, _price_cache, _holder_cache,
                   _user_price_cache, _message_queue, price_log, engine, price,
                   holder, cmd, ncmd, nanswers, nholders, ev, alerted_at>>

-----------------------------------------------------------------------------
(* TokenTracker.get_token_info_with_timestamp                               *)

\* An identifier is a text, here of two characters.  The addresses of the
\* two tokens in base58, and the name and the symbol the price gateway
\* reports for each.
AddressText == [t \in TokenAddrs |->
                   IF t = "t1" THEN <<"7", "x">> ELSE <<"G", "k">>]
TokenName == [t \in TokenAddrs |->
                 IF t = "t1" THEN <<"B", "o">> ELSE <<"W", "i">>]
TokenSymbol == [t \in TokenAddrs |->
                   IF t = "t1" THEN <<"B", "K">> ELSE <<"w", "f">>]

\* What a caller passes: an address, a name or a symbol in some case, or a
\* text that belongs to no token.
Identifiers ==
    {AddressText[t] : t \in TokenAddrs}
        \cup {<<"b", "o">>, <<"w", "F">>, <<"B", "K">>, <<"z", "z">>}

\* str.lower(), character by character.
lower_char(c) ==
    CASE c = "B" -> "b"
      [] c = "F" -> "f"
      [] c = "G" -> "g"
      [] c = "K" -> "k"
      [] c = "W" -> "w"
      [] OTHER -> c
lower(s) == [k \in 1..Len(s) |-> lower_char(s[k])]

\* Line 440: the first characters that make an identifier an address.
AddressPrefixes ==
    {"1", "2", "3", "4", "5", "6", "7", "8", "9", "A", "B", "C", "D", "E", "F"}

looks_like_address(id) == id[1] \in AddressPrefixes

\* The token whose address the text is.
TokenOfAddress(id) ==
    IF \E t \in TokenAddrs : AddressText[t] = id
    THEN CHOOSE t \in TokenAddrs : AddressText[t] = id
    ELSE NoToken

\* Lines 424-433: the loop body is `pass`, the result is always None.
get_token_by_name_or_symbol(id) == NoToken

\* Lines 448-449: the comparison of the scan.
scan_matches(t, id) ==
    lower(TokenName[t]) = lower(id) \/ lower(TokenSymbol[t]) = lower(id)

\* scanned: the name/symbol scan was entered; failed: the tokens whose price
\* request failed during the call; result: the token whose data are
\* returned; raised: the message of the APIError that ends the call.
IdleInfoCall ==
    [pc |-> "idle", identifier |-> <<>>, address |-> NoToken, todo |-> <<>>,
     scanned |-> FALSE, failed |-> {}, result |-> NoToken, raised |-> "none"]

\* Lines 461-466 with the address found: the check against the tracked
\* tokens, then the suspension in get_token_price.
InfoResolved(c, t) ==
    IF t \notin get_all_tracked_tokens(users)
    THEN [c EXCEPT !.pc = "done", !.address = t, !.raised = "not_tracked"]
    ELSE [c EXCEPT !.pc = "fetch", !.address = t]

\* Lines 445-458 from the tokens still to scan: the next request, or the
\* `else` of the loop.
InfoScan(c, todo) ==
    IF todo = <<>>
    THEN [c EXCEPT !.pc = "done", !.todo = <<>>, !.raised = "not_found"]
    ELSE [c EXCEPT !.pc = "scan", !.todo = todo]

\* Lines 437-447: the call up to its first suspension.
GetTokenInfoCall(id) ==
    /\ info_call.pc = "idle"
    /\ LET c == [info_call EXCEPT !.identifier = id]
       IN  IF looks_like_address(id)
           THEN info_call' = InfoResolved(c, TokenOfAddress(id))
           ELSE IF get_token_by_name_or_symbol(id) # NoToken
           THEN info_call' = InfoResolved(c, get_token_by_name_or_symbol(id))
           ELSE \E order \in Orderings(get_all_tracked_tokens(users)) :
                    info_call' = InfoScan([c EXCEPT !.scanned = TRUE], order)
    /\ UNCHANGED <<limiter, notifier, count_call, add_calls>>
    /\ UNCHANGED <<users, users_order, _running, _price_cache, _holder_cache,
                   _user_price_cache, _message_queue, price_log, engine, price,
                   holder, cmd, ncmd, nanswers, nholders, ev, alerted_at>>

\* The gateway answers the request of the scan with the token's data:
\* lines 447-452.
InfoScanReturn ==
    /\ info_call.pc = "scan"
    /\ info_call' =
           IF scan_matches(Head(info_call.todo), info_call.identifier)
           THEN InfoResolved([info_call EXCEPT !.todo = <<>>],
                             Head(info_call.todo))
           ELSE InfoScan(info_call, Tail(info_call.todo))
    /\ UNCHANGED <<limiter, notifier, count_call, add_calls>>
    /\ UNCHANGED <<users, users_order, _running, _price_cache, _holder_cache,
                   _user_price_cache, _message_queue, price_log, engine, price,
                   holder, cmd, ncmd, nanswers, nholders, ev, alerted_at>>

\* The request of the scan fails: lines 453-455, `continue`.
InfoScanFail ==
    /\ info_call.pc = "scan"
    /\ info_call' =
           InfoScan([info_call EXCEPT !.failed = @ \cup {Head(info_call.todo)}],
                    Tail(info_call.todo))
    /\ UNCHANGED <<limiter, notifier, count_call, add_calls>>
    /\ UNCHANGED <<users, users_order, _running, _price_cache, _holder_cache,
                   _user_price_cache, _message_queue, price_log, engine, price,
                   holder, cmd, ncmd, nanswers, nholders, ev, alerted_at>>

\* Lines 466-469: the data of the address arrive and the call suspends in
\* get_token_holders_count.
InfoFetchReturn ==
    /\ info_call.pc = "fetch"
    /\ info_call' = [info_call EXCEPT !.pc = "holders"]
    /\ UNCHANGED <<limiter, notifier, count_call, add_calls>>
    /\ UNCHANGED <<users, users_order, _running, _price_cache, _holder_cache,
                   _user_price_cache, _message_queue, price_log, engine, price,
                   holder, cmd, ncmd, nanswers, nholders, ev, alerted_at>>

\* Line 466 raises: lines 483-485.
InfoFetchFail ==
    /\ info_call.pc = "fetch"
    /\ info_call' = [info_call EXCEPT !.pc = "done",
                                      !.failed = @ \cup {info_call.address},
                                      !.raised = "fetch_failed"]
    /\ UNCHANGED <<limiter, notifier, count_call, add_calls>>
    /\ UNCHANGED <<users, users_order, _running, _price_cache, _holder_cache,
                   _user_price_cache, _message_queue, price_log, engine, price,
                   holder, cmd, ncmd, nanswers, nholders, ev, alerted_at>>

\* Lines 469-481: the holder count arrives (the gateway never raises) and the
\* data of the address are returned.
InfoHoldersReturn ==
    /\ info_call.pc = "holders"
    /\ info_call' = [info_call EXCEPT !.pc = "done",
                                      !.result = info_call.address]
    /\ UNCHANGED <<limiter, notifier, count_call, add_calls>>
    /\ UNCHANGED <<users, users_order, _running, _price_cache, _holder_cache,
                   _user_price_cache, _message_queue, price_log, engine, price,
                   holder, cmd, ncmd, nanswers, nholders, ev, alerted_at>>

-----------------------------------------------------------------------------
(* The state after construction: main() has loaded chat_ids.json and built *)
(* the engine; the handler is polling for commands; start has not run.     *)

\* A user record as a previous run saved it: tokens added with the entry
\* price of the time, or imported from the legacy list without one.
LoadedUsers ==
    {r \in [active : {TRUE},
            registered_at : {"loaded"},
            tracked_tokens : InitTracked,
            global_threshold : {DefaultThreshold},
            token_thresholds : {[t \in TokenAddrs |-> NoRule]},
            entry_prices : [TokenAddrs -> {None} \cup InitEntryPrices]] :
        \A t \in TokenAddrs :
            t \notin Range(r.tracked_tokens) => r.entry_prices[t] = None}

InitState(budget) ==
    /\ \E S \in {{}, {"u1"}, UserIds} : users \in [S -> LoadedUsers]
    /\ users_order \in Orderings(DOMAIN users)
    /\ Len(users_order) = 2 => users_order[1] = "u1"
    /\ _running = FALSE
    /\ _price_cache = [t \in TokenAddrs |-> None]
    /\ _holder_cache = [t \in TokenAddrs |-> None]
    /\ _user_price_cache = [u \in UserIds |-> [t \in TokenAddrs |-> None]]
    /\ _message_queue = <<>>
    /\ \E p \in {None} \cup InitEntryPrices : price_log = [t \in TokenAddrs |-> p]
    /\ engine = StoppedEngine
    /\ price = IdlePrice
    /\ holder = IdleHolder
    /\ cmd = IdleCmd
    /\ ncmd = budget
    /\ nanswers = 0
    /\ nholders = 0
    /\ ev = NoEv
    /\ alerted_at = [u \in UserIds |-> [t \in TokenAddrs |-> None]]
    /\ limiter = IdleLimiter
    /\ notifier = IdleNotifier
    /\ count_call = IdleCountCall
    /\ add_calls = [i \in AddCallIds |-> IdleAddCall]
    /\ info_call = IdleInfoCall

Init == InitState(MaxCommands)

\* TokenTracker.start up to the creation of the two polling tasks.
NextStart ==
    \/ Start
    \/ \E c \in PriceValues : BackfillFetchReturn(c)
    \/ BackfillFetchFail

NextPrices ==
    \/ PriceCycleStart
    \/ \E c \in PriceValues : PriceFetchReturn(c)
    \/ PriceFetchFail
    \/ PriceSendReturn
    \/ PriceSendReturnAuditFail

NextHolders ==
    \/ HolderCycleStart
    \/ \E n \in HolderValues : HolderFetchReturn(n)
    \/ HolderInfoReturn
    \/ HolderSendReturn
    \/ HolderSendReturnAuditFail

NextCommands ==
    \/ \E u \in UserIds : StartCommand(u)
    \/ \E u \in UserIds : StopCommand(u)
    \/ \E u \in UserIds, v \in ThresholdInputs : ThresholdCommand(u, v)
    \/ \E u \in UserIds, t \in TokenAddrs, v \in ThresholdInputs, d \in Directions :
           SetTokenThresholdCommand(u, t, v, d)
    \/ \E u \in UserIds, t \in TokenAddrs : AddCommand(u, t)
    \/ \E c \in PriceValues : AddFetchReturn(c)
    \/ AddFetchFail
    \/ \E u \in UserIds, t \in TokenAddrs : RemoveCommand(u, t)
    \/ \E u \in UserIds, t \in TokenAddrs : EngineRemoveToken(u, t)
    \/ \E u \in UserIds, t \in TokenAddrs : ResetCommand(u, t)
    \/ \E c \in PriceValues : ResetFetchReturn(c)
    \/ ResetFetchFail

\* The price side of the engine under the users' commands.
Next == NextStart \/ NextPrices \/ NextCommands

Spec == Init /\ [][Next]_vars

\* The holder side of the engine under the users' commands, started from a
\* registry in which every tracked token has its entry price.
InitHolders ==
    /\ Init
    /\ \A u \in DOMAIN users : \A t \in Range(users[u].tracked_tokens) :
           users[u].entry_prices[t] # None
    /\ \A t \in TokenAddrs : price_log[t] # None

NextHoldersWide ==
    \/ HolderCycleStart
    \/ \E n \in HolderValuesWide : HolderFetchReturn(n)
    \/ HolderInfoReturn
    \/ HolderSendReturn
    \/ HolderSendReturnAuditFail

SpecHolders ==
    InitHolders /\ [][NextStart \/ NextHoldersWide \/ NextCommands]_vars

\* The startup and the commands alone, with more commands arriving, from a
\* registry that holds the one user u1.
InitStartup == InitState(MaxStartupCommands) /\ DOMAIN users = {"u1"}

SpecStartup == InitStartup /\ [][NextStart \/ NextCommands]_vars

\* The two polling loops side by side, no command arriving.
SpecLoops == Init /\ [][NextStart \/ NextPrices \/ NextHolders]_vars

\* Both polling loops under the commands that change who is polled for
\* (/start, /stop, remove), from a registry in which u1 tracks t1 and t2, u2
\* tracks t1 and every tracked token has its entry price.
InitCycles ==
    /\ Init
    /\ DOMAIN users = UserIds
    /\ users["u1"].tracked_tokens = <<"t1", "t2">>
    /\ users["u2"].tracked_tokens = <<"t1">>
    /\ \A u \in DOMAIN users : \A t \in Range(users[u].tracked_tokens) :
           users[u].entry_prices[t] # None
    /\ \A t \in TokenAddrs : price_log[t] # None

NextRegistry ==
    \/ \E u \in UserIds : StartCommand(u)
    \/ \E u \in UserIds : StopCommand(u)
    \/ \E u \in UserIds, t \in TokenAddrs : RemoveCommand(u, t)

SpecCycles ==
    InitCycles /\ [][Start \/ NextPrices \/ NextHolders \/ NextRegistry]_vars

\* Both polling loops and stop(), from a registry in which u1 tracks t1 and t2
\* with their entry prices, under a price that stays below the threshold or
\* crosses it and a holder count that stays or jumps; the steps of the loops
\* are taken as long as one is possible (every call in progress returns and
\* every sleep ends).
InitStop ==
    /\ Init
    /\ DOMAIN users = {"u1"}
    /\ users["u1"].tracked_tokens = <<"t1", "t2">>
    /\ \A t \in TokenAddrs : users["u1"].entry_prices[t] # None
    /\ \A t \in TokenAddrs : price_log[t] # None

StopPriceValues == {110, 125}
StopHolderValues == {1000, 1120}

NextLoopSteps ==
    \/ PriceCycleStart
    \/ \E c \in StopPriceValues : PriceFetchReturn(c)
    \/ PriceFetchFail
    \/ PriceSendReturn
    \/ PriceSendReturnAuditFail
    \/ HolderCycleStart
    \/ \E n \in StopHolderValues : HolderFetchReturn(n)
    \/ HolderInfoReturn
    \/ HolderSendReturn
    \/ HolderSendReturnAuditFail
    \/ PriceLoopExit
    \/ HolderLoopExit
    \/ StartReturn

NextStop == Start \/ Stop \/ NextLoopSteps

SpecStop == InitStop /\ [][NextStop]_vars /\ WF_vars(NextLoopSteps)

\* Both polling loops while the engine removes tokens, from the registry of
\* InitStop: every token is tracked and has a persisted price, so that start
\* fills the shared price cache.
NextEvict ==
    \/ Start
    \/ PriceCycleStart
    \/ \E c \in StopPriceValues : PriceFetchReturn(c)
    \/ PriceSendReturn
    \/ HolderCycleStart
    \/ \E n \in StopHolderValues : HolderFetchReturn(n)
    \/ HolderInfoReturn
    \/ HolderSendReturn
    \/ \E u \in UserIds, t \in TokenAddrs : EngineRemoveToken(u, t)

SpecEvict == InitStop /\ [][NextEvict]_vars

\* One gateway instance and the tasks that call it.
InitRateLimit ==
    /\ Init
    /\ DOMAIN users = {}
    /\ \A t \in TokenAddrs : price_log[t] = None

NextRateLimit ==
    \/ \E c \in Callers : RateLimitEnter(c)
    \/ \E c \in Callers : RateLimitWake(c)
    \/ ClockTick

SpecRateLimit == InitRateLimit /\ [][NextRateLimit]_vars

\* The notifier under the price loop and the producers of its queue: two
\* users who track one token with an entry price.
InitNotifier ==
    /\ Init
    /\ DOMAIN users = UserIds
    /\ \A u \in UserIds :
           /\ users[u].active
           /\ users[u].tracked_tokens = <<"t1">>
           /\ users[u].entry_prices["t1"] # None
           /\ users[u].entry_prices["t2"] = None
    /\ \A t \in TokenAddrs : price_log[t] # None

NextNotifier ==
    \/ Start
    \/ PriceCycleStart
    \/ \E c \in StopPriceValues : PriceFetchReturn(c)
    \/ PriceSendReturn
    \/ PriceSendFail
    \/ Enqueue
    \/ ConsumerTake
    \/ \E o \in {"sent", "telegram_error"} : ConsumerSendReturn(o)
    \/ ConsumerSendRaises
    \/ ConsumerWake

SpecNotifier == InitNotifier /\ [][NextNotifier]_vars

\* One call of the holder gateway.
InitHolderCount ==
    /\ Init
    /\ DOMAIN users = {}
    /\ \A t \in TokenAddrs : price_log[t] = None

NextHolderCount ==
    \/ \E t \in TokenAddrs, is_pump \in BOOLEAN : GetHoldersCall(t, is_pump)
    \/ \E g \in ApiAnswers : GmgnReturn(g)
    \/ \E p \in ApiAnswers : PumpReturn(p)
    \/ \E r \in RpcAnswers : RpcReturn(r)

SpecHolderCount == InitHolderCount /\ [][NextHolderCount]_vars

\* What tracked_tokens.csv of the single-user layout can hold for its token:
\* load_tracked_tokens keeps a threshold that is > 0, with the direction
\* written in the file.
LegacyThresholds == {0, 15, 150}
LegacyDirections == {"both", "up"}

\* main(), lines 96-114: a legacy file with the token t is imported for the
\* first active user when no active user tracks a token.  It runs before the
\* handler polls for commands and before start().
LegacyImport(t, v, d) ==
    /\ engine.pc = "stopped"
    /\ ncmd = MaxStartupCommands
    /\ get_all_tracked_tokens(users) = {}
    /\ get_active_users(users, users_order) # <<>>
    /\ LET first_user == get_active_users(users, users_order)[1]
           added == add_token_to_user(users, first_user, t, None)
       IN  /\ users' = IF v > 0
                        THEN set_user_token_threshold(added, first_user, t, v, d)
                        ELSE added
           /\ ev' = [Ev("imported", first_user, t) EXCEPT !.new = v, !.via = d]
    /\ UNCHANGED <<limiter, notifier, count_call, add_calls, info_call>>
    /\ UNCHANGED <<users_order, _running, _price_cache, _holder_cache,
                   _user_price_cache, _message_queue, price_log, engine, price,
                   holder, cmd, ncmd, nanswers, nholders, alerted_at>>

\* The threshold commands alone, with every text a user can send as a value.
NextThresholds ==
    \/ \E t \in TokenAddrs, v \in LegacyThresholds, d \in LegacyDirections :
           LegacyImport(t, v, d)
    \/ \E u \in UserIds, v \in ThresholdInputsWide : ThresholdCommand(u, v)
    \/ \E u \in UserIds, v \in ThresholdInputsWide : ThresholdMessage(u, v)
    \/ \E u \in UserIds, t \in TokenAddrs, v \in ThresholdInputsWide,
          d \in Directions \cup {"up"} : SetTokenThresholdCommand(u, t, v, d)

SpecThresholds == InitStartup /\ [][NextThresholds]_vars

\* Two calls of add_token for the users and tokens of the registry.
NextOverlap ==
    \/ \E i \in AddCallIds, u \in UserIds, t \in TokenAddrs : AddTokenEnter(i, u, t)
    \/ \E i \in AddCallIds, c \in PriceValues : AddTokenFetchReturn(i, c)
    \/ \E i \in AddCallIds : AddTokenFetchFail(i)
    \/ \E i \in AddCallIds : AddTokenConfirmReturn(i)

SpecOverlap == Init /\ [][NextOverlap]_vars

\* One call of get_token_info_with_timestamp for each registry.
NextInfo ==
    \/ \E id \in Identifiers : GetTokenInfoCall(id)
    \/ InfoScanReturn
    \/ InfoScanFail
    \/ InfoFetchReturn
    \/ InfoFetchFail
    \/ InfoHoldersReturn

SpecInfo == Init /\ [][NextInfo]_vars

-----------------------------------------------------------------------------
(* Properties of the price check.                                          *)

NoDuplicates(q) == \A i, j \in 1..Len(q) : q[i] = q[j] => i = j

\* A step of _check_price that ran the user loop.
PriceEvaluated == ev.type \in {"price_alert", "price_checked"}

\* C1: when the price check of a token completes, every user a price alert
\* fired for in that check has the fetched price as reference price.
RebaseOnAlert ==
    ev.type = "price_checked" =>
        \A u \in ev.alerted : _user_price_cache[u][ev.token] = ev.new

\* The crossing of a rule (v, d) by the move from r to c, r > 0, as the
\* documentation states it: changePercent = (c - r) / r * 100 compared with v.
CrossesRule(r, c, v, d) ==
    \/ d = "both" /\ Abs(c - r) * 100 >= v * r
    \/ d = "positive" /\ (c - r) * 100 >= v * r
    \/ d = "negative" /\ (r - c) * 100 >= v * r

\* C2: a user evaluated with a reference r > 0 is sent a price alert if and
\* only if the move from r to the fetched price crosses the user's resolved
\* rule, and an alert is dispatched for no other reason.
DispatchIffCrossing ==
    PriceEvaluated =>
        /\ \A i \in 1..Len(ev.evals) :
              LET e == ev.evals[i]
              IN  /\ e.ref # None /\ e.ref > 0 =>
                        (e.fired <=> CrossesRule(e.ref, ev.new, e.rule.value,
                                                 e.rule.direction))
                  /\ e.fired <=> /\ ev.type = "price_alert"
                                 /\ i = Len(ev.evals)
                                 /\ e.user = ev.user
        /\ ev.type = "price_alert" => ev.evals # <<>>

\* A check at price 80 in which a user with reference 100 and a positive rule
\* is passed over and a later user with reference 100 is alerted.
DispatchIffCrossingWitness ==
    /\ ev.type = "price_alert"
    /\ ev.new = 80
    /\ \E i \in 1..Len(ev.evals) :
          /\ ev.evals[i].ref = 100
          /\ ev.evals[i].rule.direction = "positive"
          /\ ~ev.evals[i].fired
    /\ ev.old = 100

\* C3: while the polls of a token keep fetching the price c at which an alert
\* for (u, t) fired, and no reset, remove, add or threshold change for (u, t)
\* comes in between, no further price alert for (u, t) is dispatched.
NoRepeatedAlert == ~(ev.type = "price_alert" /\ ev.repeat)

\* C4: a token a user does not track is a key of neither the user's
\* per-token thresholds nor the user's entry prices.
CascadeInvariant ==
    \A u \in DOMAIN users : \A t \in TokenAddrs :
        t \notin Range(users[u].tracked_tokens) =>
            /\ users[u].token_thresholds[t] = NoRule
            /\ users[u].entry_prices[t] = None

\* C5: at the moment a price or holder alert for t is dispatched to u, u is
\* active and tracks t.
DispatchOnlyToTrackers ==
    ev.type \in {"price_alert", "holder_alert"} =>
        /\ is_user_active(users, ev.user)
        /\ ev.token \in Range(users[ev.user].tracked_tokens)

\* C6: a step that takes the price check out of the delivery to one user goes
\* on evaluating the users still waiting in that check.
RemainingUsersEvaluated ==
    [][(price.pc = "send" /\ price.users # <<>> /\ price' # price) =>
           ev'.type \in {"price_alert", "price_checked"}]_vars

\* Every token of a cycle's poll set has been fetched once or is still to be
\* fetched, a finished cycle has fetched them all, and neither loop is in its
\* cycle-level handler.
CyclesIntact ==
    /\ price.pc # "backoff"
    /\ holder.pc # "backoff"
    /\ _message_queue = <<>>
    /\ NoDuplicates(price.visited)
    /\ Range(price.visited) \cup Range(price.tokens) = price.all_tokens
    /\ Range(price.visited) \cap Range(price.tokens) = {}
    /\ price.pc = "idle" => Range(price.visited) = price.all_tokens
    /\ NoDuplicates(holder.visited)
    /\ Range(holder.visited) \cup Range(holder.tokens) = holder.all_tokens
    /\ Range(holder.visited) \cap Range(holder.tokens) = {}
    /\ holder.pc = "idle" => Range(holder.visited) = holder.all_tokens

DispatchOnlyEnqueues ==
    /\ ev.type \in {"price_alert", "holder_alert"} => _message_queue # <<>>
    /\ price.pc # "send"
    /\ holder.pc # "send"

\* C9: when a removal completes and no active user tracks the token any more,
\* the token is in neither shared cache, through the engine and through the
\* remove command alike.
EvictionOnLastRemoval ==
    (/\ ev.type = "removed"
     /\ get_users_tracking_token(users, users_order, ev.token) = <<>>) =>
        /\ _price_cache[ev.token] = None
        /\ _holder_cache[ev.token] = None

ZeroReferenceSkipped ==
    PriceEvaluated =>
        \A i \in 1..Len(ev.evals) :
            ev.evals[i].ref = 0 =>
                /\ ~ev.evals[i].fired
                /\ _user_price_cache[ev.evals[i].user][ev.token] = 0

\* C12: a user evaluated with a reference r > 0 that the fetched price does
\* not cross keeps the reference r, is sent no alert in the check and gets no
\* audit record; an audit record is written only for a user alerted in it.
NoCrossingLeavesReference ==
    PriceEvaluated =>
        /\ \A i \in 1..Len(ev.evals) :
              LET e == ev.evals[i]
              IN  (e.ref # None /\ e.ref > 0 /\ ~e.fired) =>
                      /\ _user_price_cache[e.user][ev.token] = e.ref
                      /\ e.user \notin ev.alerted
                      /\ e.user # ev.audited
        /\ ev.audited # NoUser => ev.audited \in ev.alerted

\* A check at price 80 completes after one user was alerted and audited and
\* another, with reference 100 and a positive rule, was passed over.
NoCrossingLeavesReferenceWitness ==
    /\ ev.type = "price_checked"
    /\ ev.new = 80
    /\ ev.audited # NoUser
    /\ \E i \in 1..Len(ev.evals) :
          /\ ev.evals[i].ref = 100
          /\ ev.evals[i].rule.direction = "positive"
          /\ ~ev.evals[i].fired
          /\ ev.evals[i].user # ev.audited

-----------------------------------------------------------------------------
(* Properties of the registry and of the engine's commands.                *)

\* C13: no step changes an entry price that is set, for a token the user
\* tracks before and after the step.
EntryPriceImmutable ==
    [][\A u \in DOMAIN users : \A t \in TokenAddrs :
           (/\ users[u].entry_prices[t] # None
            /\ t \in Range(users[u].tracked_tokens)
            /\ t \in Range(users'[u].tracked_tokens)) =>
               users'[u].entry_prices[t] = users[u].entry_prices[t]]_vars

\* C14: a reset whose fetch returns c sets the user's reference for the token
\* to c and leaves the registry, entry prices included, as it is; a reset of
\* a token the user does not track, or whose fetch fails, fails and leaves the
\* references and the registry as they are.
ResetSetsReferenceOnly ==
    [][/\ ev'.type = "reset" =>
              /\ _user_price_cache'[ev'.user][ev'.token] = ev'.new
              /\ users' = users
       /\ (\/ ev'.type = "reset_failed"
           \/ ev'.type = "rejected" /\ ev'.via = "reset") =>
              /\ _user_price_cache' = _user_price_cache
              /\ users' = users]_vars

\* A reset to 125 of a token whose entry price is 100.
ResetSetsReferenceOnlyWitness ==
    /\ ev.type = "reset"
    /\ ev.new = 125
    /\ users[ev.user].entry_prices[ev.token] = 100
    /\ _user_price_cache[ev.user][ev.token] = 125

\* C15: when an add whose fetch returned p completes with success, the user's
\* entry price and the user's reference price for the token are both p.
AddSetsEntryAndReference ==
    (ev.type = "added" /\ ev.new # None) =>
        /\ users[ev.user].entry_prices[ev.token] = ev.new
        /\ _user_price_cache[ev.user][ev.token] = ev.new

\* C16: when the fetch of an add for an active user not tracking the token
\* fails, the step appends the token to the user's list, records no entry
\* price, sends the confirmation and reports success.
AddWithoutPriceSucceeds ==
    [][(/\ cmd.pc = "add_fetch"
        /\ cmd'.pc = "idle"
        /\ ev'.new = None
        /\ is_user_active(users, cmd.user)
        /\ cmd.token \notin Range(users[cmd.user].tracked_tokens)) =>
           /\ users'[cmd.user].tracked_tokens =
                  Append(users[cmd.user].tracked_tokens, cmd.token)
           /\ users'[cmd.user].entry_prices = users[cmd.user].entry_prices
           /\ _user_price_cache' = _user_price_cache
           /\ ev'.type = "added"
           /\ ev'.confirmed]_vars

\* An add has completed without a price: the token is tracked and has neither
\* entry price nor reference.
AddWithoutPriceSucceedsWitness ==
    /\ ev.type = "added"
    /\ ev.new = None
    /\ ev.confirmed
    /\ ev.token \in Range(users[ev.user].tracked_tokens)
    /\ users[ev.user].entry_prices[ev.token] = None
    /\ _user_price_cache[ev.user][ev.token] = None

\* C17: an add of a token the user already tracks, or for a user who is
\* unknown or deactivated, is refused and changes nothing: every user's
\* record, the references and the shared caches stay as they were.
RefusedAddChangesNothing ==
    [][(/\ ncmd' = ncmd - 1
        /\ ev'.via = "add"
        /\ \/ ev'.user \notin DOMAIN users
           \/ ~users[ev'.user].active
           \/ ev'.token \in Range(users[ev'.user].tracked_tokens)) =>
           /\ ev'.type = "rejected"
           /\ cmd' = cmd
           /\ users' = users
           /\ users_order' = users_order
           /\ _user_price_cache' = _user_price_cache
           /\ _price_cache' = _price_cache
           /\ _holder_cache' = _holder_cache]_vars

\* An add by a deactivated user for a token they do not track was refused.
RefusedAddChangesNothingWitness ==
    /\ ev.type = "rejected"
    /\ ev.via = "add"
    /\ ev.user \in DOMAIN users
    /\ ~users[ev.user].active
    /\ ev.token \notin Range(users[ev.user].tracked_tokens)

\* C18: registering a user who already has a record, active or deactivated,
\* keeps the record's tokens, entry prices, token thresholds, global threshold
\* and registration time, makes the user active and touches no other record;
\* registering once more changes nothing.
RegisterIsIdempotent ==
    [][(ncmd' = ncmd - 1 /\ ev'.type = "registered") =>
           /\ ev'.user \in DOMAIN users =>
                 /\ DOMAIN users' = DOMAIN users
                 /\ users_order' = users_order
                 /\ users'[ev'.user].active
                 /\ users'[ev'.user].tracked_tokens =
                        users[ev'.user].tracked_tokens
                 /\ users'[ev'.user].entry_prices = users[ev'.user].entry_prices
                 /\ users'[ev'.user].token_thresholds =
                        users[ev'.user].token_thresholds
                 /\ users'[ev'.user].global_threshold =
                        users[ev'.user].global_threshold
                 /\ users'[ev'.user].registered_at =
                        users[ev'.user].registered_at
                 /\ \A v \in DOMAIN users \ {ev'.user} : users'[v] = users[v]
           /\ register_user(users', ev'.user) = users'
           /\ register_order(users', users_order', ev'.user) = users_order']_vars

\* A deactivated user with a token and its entry price has registered again.
RegisterIsIdempotentWitness ==
    /\ ev.type = "registered"
    /\ ev.via = "reactivated"
    /\ ~ev.repeat
    /\ users[ev.user].active
    /\ users[ev.user].registered_at = "loaded"
    /\ users[ev.user].tracked_tokens = <<"t1", "t2">>
    /\ users[ev.user].entry_prices["t1"] = 100

\* C19: deactivating a user only makes the record inactive: tokens, token
\* thresholds, entry prices, global threshold and every other record are kept,
\* so that registering an active user again after the deactivation gives back
\* the registry as it was; deactivating an unknown user changes nothing and
\* creates no record.
DeactivateKeepsRecord ==
    [][(ncmd' = ncmd - 1 /\ ev'.type = "deactivated") =>
           /\ DOMAIN users' = DOMAIN users
           /\ users_order' = users_order
           /\ ev'.user \notin DOMAIN users => users' = users
           /\ ev'.user \in DOMAIN users =>
                 /\ ~users'[ev'.user].active
                 /\ users'[ev'.user].tracked_tokens =
                        users[ev'.user].tracked_tokens
                 /\ users'[ev'.user].entry_prices = users[ev'.user].entry_prices
                 /\ users'[ev'.user].token_thresholds =
                        users[ev'.user].token_thresholds
                 /\ users'[ev'.user].global_threshold =
                        users[ev'.user].global_threshold
                 /\ users'[ev'.user].registered_at =
                        users[ev'.user].registered_at
                 /\ \A v \in DOMAIN users \ {ev'.user} : users'[v] = users[v]
                 /\ users[ev'.user].active =>
                        register_user(users', ev'.user) = users]_vars

\* An active user with two tokens and an entry price has been deactivated.
DeactivateKeepsRecordWitness ==
    /\ ev.type = "deactivated"
    /\ ev.via = "known"
    /\ ~ev.repeat
    /\ ~users[ev.user].active
    /\ users[ev.user].tracked_tokens = <<"t1", "t2">>
    /\ users[ev.user].entry_prices["t1"] = 100

\* The tokens that some active user tracks.
ActiveUnion(us) ==
    {t \in TokenAddrs :
        \E u \in DOMAIN us : us[u].active /\ t \in Range(us[u].tracked_tokens)}

\* C20: get_all_tracked_tokens is the union of the token lists of the active
\* users, a price cycle and a holder cycle take that set when they start and
\* keep it until they end, whatever the commands do meanwhile, and a cycle
\* checks every token of its set, each once.
CyclePollsActiveUnion ==
    [][/\ get_all_tracked_tokens(users') = ActiveUnion(users')
       /\ ev'.type = "price_cycle" => price'.all_tokens = ActiveUnion(users)
       /\ ev'.type = "holder_cycle" => holder'.all_tokens = ActiveUnion(users)
       /\ (price.pc # "idle" /\ price' # price) =>
              price'.all_tokens = price.all_tokens
       /\ (holder.pc # "idle" /\ holder' # holder) =>
              holder'.all_tokens = holder.all_tokens
       /\ NoDuplicates(price'.visited)
       /\ Range(price'.visited) \cup Range(price'.tokens) = price'.all_tokens
       /\ Range(price'.visited) \cap Range(price'.tokens) = {}
       /\ price'.pc = "idle" => Range(price'.visited) = price'.all_tokens
       /\ NoDuplicates(holder'.visited)
       /\ Range(holder'.visited) \cup Range(holder'.tokens) = holder'.all_tokens
       /\ Range(holder'.visited) \cap Range(holder'.tokens) = {}
       /\ holder'.pc = "idle" => Range(holder'.visited) = holder'.all_tokens]_vars

\* u1 was deactivated while a price cycle over t1 and t2 was under way: that
\* cycle has checked both tokens, and the holder cycle that started afterwards
\* has checked t1 alone.
CyclePollsActiveUnionWitness ==
    /\ ~users["u1"].active
    /\ users["u1"].tracked_tokens = <<"t1", "t2">>
    /\ get_all_tracked_tokens(users) = {"t1"}
    /\ price.pc = "idle"
    /\ price.all_tokens = {"t1", "t2"}
    /\ Len(price.visited) = 2
    /\ holder.pc = "idle"
    /\ holder.all_tokens = {"t1"}
    /\ holder.visited = <<"t1">>

\* C21: the threshold of a user for a token is the user's rule for that token
\* when there is one and otherwise the user's global threshold in both
\* directions; a /threshold with value g makes every token of the user without
\* a rule resolve to g and leaves the tokens with a rule as they resolved
\* before.
ThresholdResolution ==
    [][/\ \A u \in DOMAIN users' : \A t \in TokenAddrs :
              get_user_threshold(users', u, t) =
                  IF users'[u].token_thresholds[t] # NoRule
                  THEN users'[u].token_thresholds[t]
                  ELSE [value |-> users'[u].global_threshold,
                        direction |-> "both"]
       /\ (ncmd' = ncmd - 1 /\ ev'.type = "threshold") =>
              \A t \in TokenAddrs :
                  IF users[ev'.user].token_thresholds[t] = NoRule
                  THEN get_user_threshold(users', ev'.user, t) =
                           [value |-> ev'.new, direction |-> "both"]
                  ELSE get_user_threshold(users', ev'.user, t) =
                           users[ev'.user].token_thresholds[t]]_vars

\* A user with a rule on t1 and none on t2 has set the global threshold to 15:
\* t1 still resolves to the rule, t2 to 15.
ThresholdResolutionWitness ==
    /\ ev.type = "threshold"
    /\ ev.new = 15
    /\ users[ev.user].tracked_tokens = <<"t1", "t2">>
    /\ users[ev.user].token_thresholds["t1"] =
           [value |-> 20, direction |-> "positive"]
    /\ users[ev.user].token_thresholds["t2"] = NoRule
    /\ get_user_threshold(users, ev.user, "t1") =
           [value |-> 20, direction |-> "positive"]
    /\ get_user_threshold(users, ev.user, "t2") =
           [value |-> 15, direction |-> "both"]

\* The position of x in the duplicate-free sequence s.
IndexOf(s, x) == CHOOSE i \in 1..Len(s) : s[i] = x

\* q is s without x, in the order of s.
RemovedInOrder(s, x, q) ==
    /\ Len(q) = Len(s) - 1
    /\ Range(q) = Range(s) \ {x}
    /\ \A i, j \in 1..Len(q) : i < j => IndexOf(s, q[i]) < IndexOf(s, q[j])

\* What the registry does with a removal and with a per-token rule for user u
\* and token t in the registry us.
RemoveAndRuleContract(us, u, t) ==
    LET tracked == u \in DOMAIN us /\ t \in Range(us[u].tracked_tokens)
        r == remove_token_from_user(us, u, t)
    IN  /\ remove_token_ok(us, u, t) <=> tracked
        /\ set_user_token_threshold_ok(us, u, t) <=> tracked
        /\ ~tracked =>
              /\ r = us
              /\ \A v \in ThresholdInputs, d \in Directions :
                     set_user_token_threshold(us, u, t, v, d) = us
        /\ tracked =>
              /\ DOMAIN r = DOMAIN us
              /\ \A w \in DOMAIN us \ {u} : r[w] = us[w]
              /\ RemovedInOrder(us[u].tracked_tokens, t, r[u].tracked_tokens)
              /\ r[u].token_thresholds[t] = NoRule
              /\ r[u].entry_prices[t] = None
              /\ \A x \in TokenAddrs \ {t} :
                     /\ r[u].token_thresholds[x] = us[u].token_thresholds[x]
                     /\ r[u].entry_prices[x] = us[u].entry_prices[x]
              /\ r[u].active = us[u].active
              /\ r[u].global_threshold = us[u].global_threshold
              /\ r[u].registered_at = us[u].registered_at

\* C22: a removal and the setting of a per-token rule fail exactly for an
\* unknown user or a token the user does not track, and then change nothing; a
\* removal that succeeds takes the token, and nothing else, out of the user's
\* list, rules and entry prices and keeps the order of the other tokens.  This
\* holds for every user and token in every registry the program reaches, and a
\* remove command or a rule command that is refused leaves the registry as it
\* was.
RemoveAndRuleFailUnchanged ==
    [][/\ \A u \in UserIds, t \in TokenAddrs :
              RemoveAndRuleContract(users', u, t)
       /\ (ncmd' = ncmd - 1 /\ ev'.type = "removed") =>
              /\ RemovedInOrder(users[ev'.user].tracked_tokens, ev'.token,
                                users'[ev'.user].tracked_tokens)
              /\ users'[ev'.user].token_thresholds[ev'.token] = NoRule
              /\ users'[ev'.user].entry_prices[ev'.token] = None
              /\ \A x \in TokenAddrs \ {ev'.token} :
                     /\ users'[ev'.user].token_thresholds[x] =
                            users[ev'.user].token_thresholds[x]
                     /\ users'[ev'.user].entry_prices[x] =
                            users[ev'.user].entry_prices[x]
              /\ \A w \in DOMAIN users \ {ev'.user} : users'[w] = users[w]
       /\ (/\ ncmd' = ncmd - 1
           /\ ev'.type \in {"removed", "token_threshold", "rejected"}
           /\ ev'.token # NoToken
           /\ ev'.via # "add"
           /\ \/ ev'.user \notin DOMAIN users
              \/ ev'.token \notin Range(users[ev'.user].tracked_tokens)) =>
              /\ ev'.type = "rejected"
              /\ users' = users]_vars

\* u1 has removed t1 from the list t1, t2: t2 stays, with its rule and its
\* entry price.
RemoveAndRuleFailUnchangedWitness ==
    /\ ev.type = "removed"
    /\ ev.token = "t1"
    /\ users[ev.user].tracked_tokens = <<"t2">>
    /\ users[ev.user].token_thresholds["t2"] # NoRule
    /\ users[ev.user].entry_prices["t2"] = 100
    /\ users[ev.user].token_thresholds["t1"] = NoRule
    /\ users[ev.user].entry_prices["t1"] = None

\* C23: when the holder count n of a token arrives, the holder alert is due if
\* and only if a count old was observed before and n differs from it by at
\* least 10 holders or by at least 10 percent of old (the percentage is taken
\* for old > 0); the alert then goes to each of the users who are active and
\* track the token at that moment, one after the other, and in every other
\* case, the first observation included, the check sends nothing.
HolderAlertIffStep ==
    [][/\ (holder.pc = "fetch" /\ holder' # holder) =>
              LET old == _holder_cache[holder.token]
                  n == ev'.new
              IN  IF /\ old # None
                     /\ \/ Abs(n - old) >= 10
                        \/ old > 0 /\ Abs(n - old) * 100 >= 10 * old
                  THEN /\ ev'.type = "holder_due"
                       /\ holder'.pc = "info"
                       /\ NoDuplicates(holder'.users)
                       /\ Range(holder'.users) =
                              {u \in DOMAIN users :
                                  /\ users[u].active
                                  /\ holder.token \in
                                         Range(users[u].tracked_tokens)}
                  ELSE /\ ev'.type = "holder_checked"
                       /\ holder'.pc \in {"idle", "fetch"}
       /\ (holder.pc \in {"info", "send"} /\ holder.users # <<>>
           /\ holder' # holder) =>
              /\ ev'.type = "holder_alert"
              /\ ev'.user = Head(holder.users)
              /\ holder'.users = Tail(holder.users)
       /\ (ev'.type = "holder_alert" /\ holder' # holder) =>
              holder.pc \in {"info", "send"}]_vars

\* The count of a token went from 1000 to 1120 and the alert for it goes to a
\* user who is active and tracks the token.
HolderAlertIffStepWitness ==
    /\ ev.type = "holder_alert"
    /\ ev.old = 1000
    /\ ev.new = 1120
    /\ holder.pc = "send"
    /\ users[ev.user].active
    /\ ev.token \in Range(users[ev.user].tracked_tokens)

\* C24: once stop() has cleared the flag, both loops end and start() returns,
\* as long as the calls and sleeps in progress return, and no polling
\* iteration begins any more.
StopEndsLoops ==
    /\ SessionClosed ~>
           (price.pc = "done" /\ holder.pc = "done" /\ engine.pc = "returned")
    /\ [][SessionClosed => ev'.type \notin {"price_cycle", "holder_cycle"}]_vars

\* stop() came during the iterations: both loops have ended after going
\* through their two tokens, and start() has returned.
StopEndsLoopsWitness ==
    /\ ~_running
    /\ engine.pc = "returned"
    /\ price.pc = "done"
    /\ holder.pc = "done"
    /\ Len(price.visited) = 2
    /\ Len(holder.visited) = 2
    /\ price.inflight

\* C25: a token of the iteration whose check begins after stop() is still
\* fetched, persisted and evaluated.
StoppedIterationChecksAll ==
    [][(/\ SessionClosed
        /\ price.pc = "fetch"
        /\ ~price.inflight
        /\ price' # price) =>
           /\ ev'.type \in {"price_checked", "price_alert"}
           /\ price_log'[price.token] = ev'.new]_vars

\* C26: an answered backfill request makes the fetched price the entry price
\* of its pair; a failed one changes no entry price and the backfill goes on
\* with the pairs after it; and when the backfill is over and no command came
\* in the meantime, every token of an active user has an entry price or is one
\* whose request failed.
BackfillBestEffort ==
    [][/\ ev'.type = "backfilled" /\ engine.pc = "backfill" =>
              /\ users'[ev'.user].entry_prices[ev'.token] = ev'.new
              /\ engine'.pc \in {"backfill", "running"}
       /\ ev'.type = "backfill_failed" /\ engine.pc = "backfill" =>
              /\ users' = users
              /\ engine'.pc \in {"backfill", "running"}
              /\ <<ev'.user, ev'.token>> \in engine'.failed
       /\ (engine'.pc = "running" /\ ncmd' = MaxStartupCommands) =>
              \A u \in DOMAIN users' :
                  \A t \in Range(users'[u].tracked_tokens) :
                      users'[u].active =>
                          \/ users'[u].entry_prices[t] # None
                          \/ /\ <<u, t>> \in engine'.failed
                             /\ users[u].entry_prices[t] = None]_vars

\* The backfill is over: the request for (u1, t1) failed and left the pair
\* without entry price, the one for (u1, t2) after it was answered with 80.
BackfillBestEffortWitness ==
    /\ engine.pc = "running"
    /\ ncmd = MaxStartupCommands
    /\ engine.failed = {<<"u1", "t1">>}
    /\ users["u1"].tracked_tokens = <<"t1", "t2">>
    /\ users["u1"].entry_prices["t1"] = None
    /\ users["u1"].entry_prices["t2"] = 80

-----------------------------------------------------------------------------
(* Properties of the gateways and of the notifier.                         *)

\* C27: any two requests sent through one gateway instance start at least
\* RateLimit apart, whichever callers were waiting in the rate limiter.
RequestsSpaced ==
    \A c1, c2 \in Callers :
        (c1 # c2 /\ limiter.started[c1] # None /\ limiter.started[c2] # None)
            => Abs(limiter.started[c1] - limiter.started[c2]) >= RateLimit

\* The deliveries of message m to chat c that the consumer has attempted.
Attempts(log, m, c) ==
    {i \in DOMAIN log : log[i].message = m /\ log[i].chat = c}

\* C28: a delivery that fails drops its message.  When the consumer's
\* delivery of a queued message to a chat fails, the queue is left as it was
\* (the message is not put back), the consumer stays in its loop, and no
\* message is ever taken twice or attempted twice for one chat.  When the
\* delivery of a user's price alert fails, the queue is left as it was, the
\* price check goes on as it would after a delivery (it does not end in its
\* exception handler) and does not send to that user again.
DeliveryFailureDrops ==
    /\ [](\A i, j \in DOMAIN notifier.taken :
              i # j => notifier.taken[i] # notifier.taken[j])
    /\ [](\A i \in DOMAIN notifier.log :
              Cardinality(Attempts(notifier.log, notifier.log[i].message,
                                   notifier.log[i].chat)) = 1)
    /\ [][/\ (/\ Len(notifier'.log) = Len(notifier.log) + 1
              /\ notifier'.log[Len(notifier'.log)].outcome # "sent")
             => /\ notifier'.log[Len(notifier'.log)].message = notifier.message
                /\ _message_queue' = _message_queue
                /\ notifier.message \notin Range(_message_queue')
                /\ notifier'.taken = notifier.taken
                /\ notifier'.running = notifier.running
                /\ notifier'.pc \in {"send", "sleep", "idle"}
          /\ (notifier'.undelivered # notifier.undelivered)
             => /\ notifier'.undelivered =
                       notifier.undelivered \cup {<<price.user, price.token>>}
                /\ _message_queue' = _message_queue
                /\ ev'.type \in {"price_alert", "price_checked"}
                /\ price.token \notin price'.failed
                /\ ~(price'.pc = "send" /\ price'.user = price.user)]_vars

\* The first queued message failed for a chat and the consumer took the
\* second; u1's price alert failed and the check went on to alert u2.
DeliveryFailureDropsWitness ==
    /\ \E i \in DOMAIN notifier.log :
           /\ notifier.log[i].message = 1
           /\ notifier.log[i].outcome # "sent"
    /\ notifier.taken = <<1, 2>>
    /\ <<"u1", "t1">> \in notifier.undelivered
    /\ price.pc = "send"
    /\ price.user = "u2"

\* C29: the consumer takes the queued messages one at a time in the order
\* of the put calls, and a put never blocks or fails.  The k-th message taken
\* is the k-th message put; the pending messages are the later ones in their
\* order; a message is taken only when the delivery of the one before is
\* over; a producer can always put, and its message goes to the end of the
\* queue, however many are pending.
QueueFifo ==
    /\ [](\A i \in DOMAIN notifier.taken : notifier.taken[i] = i)
    /\ [](/\ Len(notifier.taken) + Len(_message_queue) = notifier.nput
          /\ \A i \in DOMAIN _message_queue :
                 _message_queue[i] = Len(notifier.taken) + i)
    /\ [](notifier.pc = "send"
              => notifier.message = notifier.taken[Len(notifier.taken)])
    /\ [](notifier.nput < MaxMessages => ENABLED Enqueue)
    /\ [][/\ (notifier'.taken # notifier.taken)
             => /\ notifier.pc = "idle"
                /\ notifier.message = 0
                /\ notifier'.taken =
                       Append(notifier.taken, Head(_message_queue))
                /\ _message_queue' = Tail(_message_queue)
          /\ (notifier'.nput # notifier.nput)
             => /\ notifier'.nput = notifier.nput + 1
                /\ _message_queue' =
                       Append(_message_queue, notifier'.nput)]_vars

\* The first message is being delivered while the second waits in the queue.
QueueFifoWitness ==
    /\ notifier.taken = <<1>>
    /\ notifier.pc = "send"
    /\ _message_queue = <<2>>

\* C30: get_token_holders_count never raises and returns an integer >= 0.
\* The alternative APIs are tried first; the RPC call is made exactly when
\* they raised or gave no positive count; a positive count of the first
\* strategy that has one is the result, and the result is 0 when every
\* strategy failed.
HolderCountTotal ==
    /\ count_call.pc # "raised"
    /\ count_call.pc # "idle" => count_call.tried[1] = "alternative"
    /\ count_call.pc = "returned" =>
           LET alt == IF count_call.gmgn # Raises /\ count_call.gmgn > 0
                      THEN count_call.gmgn
                      ELSE IF count_call.pump # Raises /\ count_call.pump > 0
                      THEN count_call.pump
                      ELSE 0
           IN  /\ count_call.result \in Nat
               /\ alt > 0 => /\ count_call.result = alt
                             /\ count_call.tried = <<"alternative">>
               /\ alt = 0 =>
                      /\ count_call.tried = <<"alternative", "rpc">>
                      /\ count_call.result =
                             IF count_call.rpc \in {Raises, None}
                             THEN 0 ELSE count_call.rpc

\* Both alternative APIs and the RPC call raised, and the call returned 0.
HolderCountTotalWitness ==
    /\ count_call.pc = "returned"
    /\ count_call.gmgn = Raises
    /\ count_call.pump = Raises
    /\ count_call.rpc = Raises
    /\ count_call.result = 0

-----------------------------------------------------------------------------
(* Properties of the stored thresholds and prices.                         *)

\* C31: in every reachable state every user's global threshold v satisfies
\* 0 < v <= 100.
GlobalThresholdInRange ==
    \A u \in DOMAIN users :
        /\ users[u].global_threshold # NaN
        /\ 0 < users[u].global_threshold
        /\ users[u].global_threshold <= 100

\* C32: in every reachable state every stored per-token rule has a value in
\* (0, 100] and one of the directions both, positive, negative.
TokenRuleInRange ==
    \A u \in DOMAIN users : \A t \in TokenAddrs :
        users[u].token_thresholds[t] # NoRule =>
            /\ users[u].token_thresholds[t].value # NaN
            /\ 0 < users[u].token_thresholds[t].value
            /\ users[u].token_thresholds[t].value <= 100
            /\ users[u].token_thresholds[t].direction \in
                   {"both", "positive", "negative"}

\* C33: in every reachable state every recorded entry price is strictly
\* greater than 0.
EntryPricePositive ==
    \A u \in DOMAIN users : \A t \in TokenAddrs :
        users[u].entry_prices[t] # None => users[u].entry_prices[t] > 0

-----------------------------------------------------------------------------
(* Properties of removal, of overlapping calls and of the restart.         *)

\* C34: when u removes t and later adds it again, no reference price from
\* before the removal is left for (u, t).  An add that completes without a
\* usable price (the fetch failed or returned 0) writes no reference, so
\* right after it u has no cached reference for t: a token that was not
\* tracked can only have one from before a removal.
NoStaleReferenceAfterReadd ==
    (ev.type = "added" /\ ev.new \in {None, 0})
        => _user_price_cache[ev.user][ev.token] = None

\* A check of t is between its fetch and its return.
PriceCheckOf(t) == price.pc \in {"fetch", "send"} /\ price.token = t
HolderCheckOf(t) == holder.pc \in {"fetch", "info", "send"} /\ holder.token = t

\* C35: a check of t that was suspended in its fetch while the last active
\* tracker removed t does not put t back into a shared cache.  Every token
\* is tracked at the start and removals go through the engine, so a token
\* that no user tracks has been evicted: once no check of it is in flight,
\* neither shared cache has an entry for it.
NoReinsertAfterEviction ==
    \A t \in TokenAddrs :
        (/\ \A u \in DOMAIN users : t \notin Range(users[u].tracked_tokens)
         /\ ~PriceCheckOf(t)
         /\ ~HolderCheckOf(t))
            => _price_cache[t] = None /\ _holder_cache[t] = None

\* C36: when every strategy of the holder gateway fails for t, so that the
\* gateway answers with its fallback 0, the check of t finds no holder alert
\* due and the shared holder baseline of t stays at the count observed
\* before, here a count above 0.
FallbackLeavesBaseline ==
    [][(/\ holder.pc = "fetch"
        /\ holder' # holder
        /\ ev'.new = 0
        /\ _holder_cache[holder.token] # None
        /\ _holder_cache[holder.token] > 0) =>
           /\ ev'.type # "holder_due"
           /\ _holder_cache'[holder.token] = _holder_cache[holder.token]]_vars

\* What the registry and the per-user cache hold for user v.
RecordOf(us, v) == IF v \in DOMAIN us THEN {us[v]} ELSE {}
OwnEvaluation(e, v) ==
    \E i \in 1..Len(e.evals) :
        e.evals[i].user = v /\ e.evals[i].ref \in {None, 0}

\* C37: an operation carried out for user u (an add, a removal, the setting
\* of the global threshold or of a per-token rule, a reset, a registration,
\* a deactivation, a backfill, the dispatch of an alert to u) leaves every
\* other user v's record (tokens, rules, entry prices, global threshold,
\* active flag) as it was, and v's cached references too: in the step of a
\* price check that dispatches an alert to u, a reference of v changes only
\* where the same step evaluated v itself without a reference and seeded it.
PerUserIsolation ==
    [][\A v \in UserIds :
          (ev'.user \in UserIds /\ ev'.user # v) =>
              /\ RecordOf(users', v) = RecordOf(users, v)
              /\ \A t \in TokenAddrs :
                    _user_price_cache'[v][t] # _user_price_cache[v][t] =>
                        /\ ev'.type = "price_alert"
                        /\ ev'.token = t
                        /\ OwnEvaluation(ev', v)]_vars

\* u1 has just set its global threshold to 15 and u2 still has 20.
PerUserIsolationWitness ==
    /\ ev.type = "threshold"
    /\ ev.user = "u1"
    /\ ev.new = 15
    /\ "u2" \in DOMAIN users
    /\ users["u1"].global_threshold = 15
    /\ users["u2"].global_threshold = 20

\* How often t occurs in the list s.
Occurrences(s, t) == Cardinality({k \in 1..Len(s) : s[k] = t})

\* C38: when two calls of add_token for the same active user u and token t
\* have both passed the checks and were suspended in the fetch at the same
\* time, then once both have returned t occurs in u's tokens exactly once,
\* exactly one call has returned True, u's entry price for t is the price
\* that call fetched (none when its fetch failed) and u's reference for t,
\* when there is one, is that price too, as it is whenever that price is
\* above 0: nothing the other call fetched is stored.
OverlappingAddsOneWinner ==
    \A i, j \in AddCallIds :
        (/\ i # j
         /\ add_calls[i].pc = "returned" /\ add_calls[j].pc = "returned"
         /\ add_calls[i].passed /\ add_calls[j].passed
         /\ add_calls[i].overlap \/ add_calls[j].overlap
         /\ add_calls[i].user = add_calls[j].user
         /\ add_calls[i].token = add_calls[j].token
         /\ add_calls[i].result) =>
            LET u == add_calls[i].user
                t == add_calls[i].token
                p == add_calls[i].price
            IN  /\ Occurrences(users[u].tracked_tokens, t) = 1
                /\ ~add_calls[j].result
                /\ users[u].entry_prices[t] = p
                /\ _user_price_cache[u][t] # None => _user_price_cache[u][t] = p
                /\ (p # None /\ p > 0) => _user_price_cache[u][t] = p

\* Both calls for (u1, t2) overlapped and have returned; the one that was
\* resumed first fetched 110 and the other 125.
OverlappingAddsOneWinnerWitness ==
    /\ add_calls[1].pc = "returned" /\ add_calls[2].pc = "returned"
    /\ add_calls[1].user = "u1" /\ add_calls[2].user = "u1"
    /\ add_calls[1].token = "t2" /\ add_calls[2].token = "t2"
    /\ add_calls[2].overlap
    /\ add_calls[2].result /\ ~add_calls[1].result
    /\ add_calls[2].price = 110 /\ add_calls[1].price = 125
    /\ users["u1"].entry_prices["t2"] = 110

-----------------------------------------------------------------------------
(* Properties of the live token information.                               *)

\* The identifier of the call is the address of a token that an active
\* user tracks.
TrackedAddressGiven ==
    /\ info_call.pc # "idle"
    /\ \E t \in TokenAddrs :
          /\ AddressText[t] = info_call.identifier
          /\ \E u \in DOMAIN users :
                users[u].active /\ t \in Range(users[u].tracked_tokens)

\* C39: a call of get_token_info_with_timestamp with the address of a token
\* that some active user tracks never enters the name/symbol scan, and when
\* it has ended without a failed price request it has returned the data of
\* that address; a call ends with not-found only when the name and the
\* symbol of every tracked token differ from the identifier in lower case.
LiveInfoOfTrackedAddress ==
    /\ TrackedAddressGiven =>
          /\ ~info_call.scanned
          /\ (info_call.pc = "done" /\ info_call.failed = {}) =>
                 /\ info_call.raised = "none"
                 /\ AddressText[info_call.result] = info_call.identifier
    /\ (info_call.pc = "done" /\ info_call.raised = "not_found"
        /\ info_call.failed = {}) =>
           \A t \in get_all_tracked_tokens(users) :
               /\ lower(TokenName[t]) # lower(info_call.identifier)
               /\ lower(TokenSymbol[t]) # lower(info_call.identifier)

-----------------------------------------------------------------------------
(* Properties of the start of the engine.                                  *)

\* C40: the step that starts the engine gives every active user u, for every
\* token t that u tracks, the reference that is u's entry price for t when
\* one is recorded, otherwise the last persisted price of t when there is
\* one, otherwise none; whatever reference was cached before the start (by
\* a reset or a first observation) is not kept.
StartReferences ==
    [][(engine.pc = "stopped" /\ ev'.type = "started") =>
          \A u \in DOMAIN users : \A t \in TokenAddrs :
              (users[u].active /\ t \in Range(users[u].tracked_tokens)) =>
                  _user_price_cache'[u][t] =
                      IF users[u].entry_prices[t] # None
                      THEN users[u].entry_prices[t]
                      ELSE price_log[t]]_vars

====
